---- MODULE Spec2Model ----
(***************************************************************************)
(* Function-graphing engine of homework-helper: the expression normalizer  *)
(* (GraphView.tsx 163-193, App.tsx 735-759), the curve sampler             *)
(* (GraphView.tsx 144-237), the viewport (GraphView.tsx 13-60, 240-250)    *)
(* the function list / parameter map of App.tsx (715-814, 1268-1382) and   *)
(* the image scanner of App.tsx (884-911, 1484-1524).                      *)
(*                                                                         *)
(* A JavaScript string is a sequence of one-character strings.             *)
(***************************************************************************)
EXTENDS Integers, Sequences, FiniteSets, TLC

(***************************************************************************)
(* Characters and the regular expressions of the normalizer                *)
(***************************************************************************)

LowerCase == <<"a","b","c","d","e","f","g","h","i","j","k","l","m",
               "n","o","p","q","r","s","t","u","v","w","x","y","z">>

UpperCase == <<"A","B","C","D","E","F","G","H","I","J","K","L","M",
               "N","O","P","Q","R","S","T","U","V","W","X","Y","Z">>

Digits == <<"0","1","2","3","4","5","6","7","8","9">>

Range(s) == { s[i] : i \in DOMAIN s }

\* the class [a-z] under the i flag
IsLetter(c) == c \in Range(LowerCase) \cup Range(UpperCase)

IsDigit(c) == c \in Range(Digits)

\* the class \s, for the white space the model's strings can hold
IsSpace(c) == c = " "

\* case folding of the i flag
ToLower(c) ==
  IF c \in Range(UpperCase)
    THEN LowerCase[CHOOSE i \in DOMAIN UpperCase : UpperCase[i] = c]
    ELSE c

\* s.substring(i - 1): the characters of s from position i on
From(s, i) == IF i > Len(s) THEN <<>> ELSE SubSeq(s, i, Len(s))

\* does the literal pat match s at position i (ci: the i flag)
MatchAt(s, i, pat, ci) ==
  /\ i + Len(pat) - 1 <= Len(s)
  /\ \A j \in 1..Len(pat) :
       IF ci THEN ToLower(s[i + j - 1]) = ToLower(pat[j])
             ELSE s[i + j - 1] = pat[j]

RECURSIVE ReplaceFrom(_, _, _, _, _)
ReplaceFrom(s, i, pat, rep, ci) ==
  IF i > Len(s) THEN <<>>
  ELSE IF MatchAt(s, i, pat, ci)
    THEN rep \o ReplaceFrom(s, i + Len(pat), pat, rep, ci)
    ELSE <<s[i]>> \o ReplaceFrom(s, i + 1, pat, rep, ci)

\* s.replace(new RegExp(pat, ci ? 'gi' : 'g'), rep) for a literal pat
ReplaceAll(s, pat, rep, ci) == ReplaceFrom(s, 1, pat, rep, ci)

\* the decimal digits of a natural number (template literal `${i}`)
RECURSIVE DecimalOf(_)
DecimalOf(n) ==
  IF n < 10 THEN <<Digits[n + 1]>>
  ELSE DecimalOf(n \div 10) \o <<Digits[(n % 10) + 1]>>

(***************************************************************************)
(* splitImplicitMultiplication (GraphView.tsx 175-191, App.tsx 735-759)    *)
(***************************************************************************)

\* const functions = ['sin', 'cos', ...]
functions ==
  << <<"s","i","n">>, <<"c","o","s">>, <<"t","a","n">>,
     <<"a","s","i","n">>, <<"a","c","o","s">>, <<"a","t","a","n">>,
     <<"l","o","g">>, <<"l","n">>, <<"s","q","r","t">>, <<"a","b","s">>,
     <<"e","x","p">>, <<"p","i">>, <<"p","h","i">> >>

\* the names of a given length, in their order in fns
OfLength(fns, n) == SelectSeq(fns, LAMBDA f : Len(f) = n)

\* [...functions].sort((a, b) => b.length - a.length): a stable sort by
\* descending length (the names have 2, 3 or 4 characters)
sortedFns == OfLength(functions, 4) \o OfLength(functions, 3) \o OfLength(functions, 2)

\* `__FN${i}__`, i being the 0-based index of forEach
placeholder(i) == <<"_","_","F","N">> \o DecimalOf(i) \o <<"_","_">>

\* sortedFns.forEach((fn, i) => processed = processed.replace(new RegExp(fn, 'gi'), placeholder))
\* for the names of index i ..
RECURSIVE HideFns(_, _)
HideFns(processed, i) ==
  IF i > Len(sortedFns) THEN processed
  ELSE HideFns(ReplaceAll(processed, sortedFns[i], placeholder(i - 1), TRUE), i + 1)

RECURSIVE SplitFrom(_, _)
SplitFrom(s, i) ==
  IF i > Len(s) THEN <<>>
  ELSE IF i < Len(s) /\ IsLetter(s[i]) /\ IsLetter(s[i + 1])
    THEN <<s[i], " ", s[i + 1]>> \o SplitFrom(s, i + 2)
    ELSE <<s[i]>> \o SplitFrom(s, i + 1)

\* processed.replace(/([a-z])([a-z])/gi, '$1 $2')
SplitLetters(s) == SplitFrom(s, 1)

\* sortedFns.forEach((fn, i) => processed = processed.replace(new RegExp(`__FN${i}__`, 'g'), fn))
RECURSIVE RestoreFns(_, _)
RestoreFns(processed, i) ==
  IF i > Len(sortedFns) THEN processed
  ELSE RestoreFns(ReplaceAll(processed, placeholder(i - 1), sortedFns[i], FALSE), i + 1)

\* the function with one split pass instead of two
SinglePassSplit(expr) ==
  RestoreFns(SplitLetters(HideFns(expr, 1)), 1)

splitImplicitMultiplication(expr) ==
  RestoreFns(SplitLetters(SplitLetters(HideFns(expr, 1))), 1)

(***************************************************************************)
(* normalizedExpr (GraphView.tsx 163-172)                                  *)
(***************************************************************************)

\* the position of the first character after the \s* run that starts at i
RECURSIVE SkipSpaces(_, _)
SkipSpaces(s, i) ==
  IF i <= Len(s) /\ IsSpace(s[i]) THEN SkipSpaces(s, i + 1) ELSE i

\* the length of the match of  pat\s*=  at position i, 0 when there is none
AssignMatch(s, i, pat) ==
  IF MatchAt(s, i, pat, FALSE)
    THEN LET j == SkipSpaces(s, i + Len(pat))
         IN  IF j <= Len(s) /\ s[j] = "=" THEN j - i + 1 ELSE 0
    ELSE 0

RECURSIVE StripFrom(_, _, _)
StripFrom(s, i, pat) ==
  IF i > Len(s) THEN <<>>
  ELSE LET n == AssignMatch(s, i, pat)
       IN  IF n > 0 THEN StripFrom(s, i + n, pat)
           ELSE <<s[i]>> \o StripFrom(s, i + 1, pat)

\* .replace(/f\(x\)\s*=/g, '') and .replace(/y\s*=/g, '')
StripAssign(s, pat) == StripFrom(s, 1, pat)

StripPrefixes(s) == StripAssign(StripAssign(s, <<"f","(","x",")">>), <<"y">>)

\* the position of the first ")" at or after i, 0 when there is none
RECURSIVE FirstClose(_, _)
FirstClose(s, i) ==
  IF i > Len(s) THEN 0
  ELSE IF s[i] = ")" THEN i ELSE FirstClose(s, i + 1)

\* .replace(/logB\(([^)]+)\)/gi, 'log($1, B)'): name is "logB(", base the
\* digits of B; the group [^)]+ runs to the first ")" and is not empty
RECURSIVE LogFrom(_, _, _, _)
LogFrom(s, i, name, base) ==
  IF i > Len(s) THEN <<>>
  ELSE LET a == i + Len(name)
           j == FirstClose(s, a)
       IN  IF MatchAt(s, i, name, TRUE) /\ j > a
             THEN <<"l","o","g","(">> \o SubSeq(s, a, j - 1) \o <<","," ">> \o base \o <<")">>
                  \o LogFrom(s, j + 1, name, base)
             ELSE <<s[i]>> \o LogFrom(s, i + 1, name, base)

RewriteLog(s, name, base) == LogFrom(s, 1, name, base)

RECURSIVE TrimLeft(_)
TrimLeft(s) == IF s # <<>> /\ IsSpace(Head(s)) THEN TrimLeft(Tail(s)) ELSE s

RECURSIVE TrimRight(_)
TrimRight(s) ==
  IF s # <<>> /\ IsSpace(s[Len(s)]) THEN TrimRight(SubSeq(s, 1, Len(s) - 1)) ELSE s

\* String.prototype.trim
Trim(s) == TrimLeft(TrimRight(s))

\* the replace chain of lines 163-172
Rewrite(expression) ==
  LET s1 == StripPrefixes(expression)
      s2 == ReplaceAll(s1, <<"s","i","n","^","-","1">>, <<"a","s","i","n">>, TRUE)
      s3 == ReplaceAll(s2, <<"c","o","s","^","-","1">>, <<"a","c","o","s">>, TRUE)
      s4 == ReplaceAll(s3, <<"t","a","n","^","-","1">>, <<"a","t","a","n">>, TRUE)
      s5 == RewriteLog(s4, <<"l","o","g","2","(">>, <<"2">>)
      s6 == RewriteLog(s5, <<"l","o","g","1","0","(">>, <<"1","0">>)
      s7 == ReplaceAll(s6, <<"π">>, <<"P","I">>, TRUE)
  IN  Trim(s7)

\* the expression the sampler evaluates (line 193)
Normalize(expression) == splitImplicitMultiplication(Rewrite(expression))

(***************************************************************************)
(* mathjs, as the program uses it: parse (App.tsx 788, 1285) and evaluate  *)
(* (GraphView.tsx 204, 213).  The grammar is the part of mathjs's that the *)
(* model's expressions use: numbers, symbols, function calls, parentheses, *)
(* + * / and implicit multiplication.  A value is an exact integer, an     *)
(* untracked finite real, an infinity, NaN, a complex number, a unit, a    *)
(* function or undefined; an evaluation ends in a value or in an error.    *)
(***************************************************************************)

\* mathjs isAlpha: Latin letters, _ and $, Greek letters
IsAlpha(c) == IsLetter(c) \/ c \in {"_", "$", "π", "θ"}

\* the delimiters of the grammar the model parses: sums, products, quotients,
\* calls and parentheses
Delimiters == {"(", ")", ",", "+", "*", "/"}

IsAlphaNum(c) == IsAlpha(c) \/ IsDigit(c)

\* the end of the run of symbol characters that starts at i
RECURSIVE SymbolEnd(_, _)
SymbolEnd(s, i) ==
  IF i <= Len(s) /\ IsAlphaNum(s[i]) THEN SymbolEnd(s, i + 1) ELSE i

\* the end of the run of digits that starts at i
RECURSIVE NumberEnd(_, _)
NumberEnd(s, i) ==
  IF i <= Len(s) /\ IsDigit(s[i]) THEN NumberEnd(s, i + 1) ELSE i

\* parseInt of a run of digits
RECURSIVE NumberOf(_)
NumberOf(ds) ==
  IF ds = <<>> THEN 0
  ELSE 10 * NumberOf(SubSeq(ds, 1, Len(ds) - 1))
       + (CHOOSE d \in 0..9 : Digits[d + 1] = ds[Len(ds)])

\* the tokens of s from position i on
RECURSIVE TokensFrom(_, _)
TokensFrom(s, i) ==
  IF i > Len(s) THEN <<>>
  ELSE IF IsSpace(s[i]) THEN TokensFrom(s, i + 1)
  ELSE IF IsAlpha(s[i]) THEN
    LET j == SymbolEnd(s, i)
    IN  <<[type |-> "SYMBOL", v |-> SubSeq(s, i, j - 1)]>> \o TokensFrom(s, j)
  ELSE IF IsDigit(s[i]) THEN
    LET j == NumberEnd(s, i)
    IN  <<[type |-> "NUMBER", v |-> NumberOf(SubSeq(s, i, j - 1))]>> \o TokensFrom(s, j)
  ELSE IF s[i] \in Delimiters THEN
    <<[type |-> "DELIMITER", v |-> s[i]]>> \o TokensFrom(s, i + 1)
  ELSE <<[type |-> "UNKNOWN", v |-> s[i]]>> \o TokensFrom(s, i + 1)

Tokenize(s) == TokensFrom(s, 1)

IsDelim(ts, p, d) == p <= Len(ts) /\ ts[p].type = "DELIMITER" /\ ts[p].v = d

SyntaxError == [ok |-> FALSE]

Parsed(n, p) == [ok |-> TRUE, node |-> n, p |-> p]

NoNode == [t |-> "none"]

\* The recursive descent of math.parse over the tokens ts from position p,
\* one rule per case: parseAddSubtract and its loop over "+",
\* parseMultiplyDivide and its loop over "*" and "/", the implicit
\* multiplication and its loop, an atom (a symbol, a call, a number or a
\* parenthesis) and the arguments of a call up to its closing parenthesis.
\* left is the operand parsed so far (the call being built, for "args").
RECURSIVE ParseRule(_, _, _, _)
ParseRule(rule, ts, left, p) ==
  CASE rule = "addSubtract" ->
         LET l == ParseRule("multiplyDivide", ts, NoNode, p)
         IN  IF l.ok THEN ParseRule("addLoop", ts, l.node, l.p) ELSE SyntaxError
    [] rule = "addLoop" ->
         IF IsDelim(ts, p, "+") THEN
           LET r == ParseRule("multiplyDivide", ts, NoNode, p + 1)
           IN  IF r.ok
                 THEN ParseRule("addLoop", ts,
                                [t |-> "op", op |-> "+", args |-> <<left, r.node>>], r.p)
                 ELSE SyntaxError
         ELSE Parsed(left, p)
    [] rule = "multiplyDivide" ->
         LET l == ParseRule("implicit", ts, NoNode, p)
         IN  IF l.ok THEN ParseRule("mulLoop", ts, l.node, l.p) ELSE SyntaxError
    [] rule = "mulLoop" ->
         IF IsDelim(ts, p, "*") \/ IsDelim(ts, p, "/") THEN
           LET r == ParseRule("implicit", ts, NoNode, p + 1)
           IN  IF r.ok
                 THEN ParseRule("mulLoop", ts,
                                [t |-> "op", op |-> ts[p].v, args |-> <<left, r.node>>], r.p)
                 ELSE SyntaxError
         ELSE Parsed(left, p)
    [] rule = "implicit" ->
         LET l == ParseRule("atom", ts, NoNode, p)
         IN  IF l.ok THEN ParseRule("implicitLoop", ts, l.node, l.p) ELSE SyntaxError
    [] rule = "implicitLoop" ->
         \* a symbol, an opening parenthesis, or a number that does not
         \* follow a number, continues an implicit product
         IF /\ p <= Len(ts)
            /\ \/ ts[p].type = "SYMBOL"
               \/ IsDelim(ts, p, "(")
               \/ ts[p].type = "NUMBER" /\ ~(left.t = "num")
                                        /\ ~(left.t = "op" /\ left.args[2].t = "num")
         THEN
           LET r == ParseRule("atom", ts, NoNode, p)
           IN  IF r.ok
                 THEN ParseRule("implicitLoop", ts,
                                [t |-> "op", op |-> "*", args |-> <<left, r.node>>], r.p)
                 ELSE SyntaxError
         ELSE Parsed(left, p)
    [] rule = "atom" ->
         IF p > Len(ts) THEN SyntaxError
         ELSE IF ts[p].type = "SYMBOL" THEN
           IF IsDelim(ts, p + 1, "(")
             THEN IF IsDelim(ts, p + 2, ")")
                    THEN Parsed([t |-> "call", fn |-> ts[p].v, args |-> <<>>], p + 3)
                    ELSE ParseRule("args", ts,
                                   [t |-> "call", fn |-> ts[p].v, args |-> <<>>], p + 2)
             ELSE Parsed([t |-> "sym", name |-> ts[p].v], p + 1)
         ELSE IF ts[p].type = "NUMBER" THEN Parsed([t |-> "num", v |-> ts[p].v], p + 1)
         ELSE IF IsDelim(ts, p, "(") THEN
           LET e == ParseRule("addSubtract", ts, NoNode, p + 1)
           IN  IF e.ok /\ IsDelim(ts, e.p, ")")
                 THEN Parsed([t |-> "paren", args |-> <<e.node>>], e.p + 1)
                 ELSE SyntaxError
         ELSE SyntaxError
    [] rule = "args" ->
         LET a == ParseRule("addSubtract", ts, NoNode, p)
         IN  IF ~a.ok THEN SyntaxError
             ELSE LET c == [left EXCEPT !.args = Append(@, a.node)]
                  IN  IF IsDelim(ts, a.p, ")") THEN Parsed(c, a.p + 1)
                      ELSE IF IsDelim(ts, a.p, ",") THEN ParseRule("args", ts, c, a.p + 1)
                      ELSE SyntaxError

ParseAddSubtract(ts, p) == ParseRule("addSubtract", ts, NoNode, p)

\* math.parse(s): the node tree, or [ok |-> FALSE] for a SyntaxError; the
\* empty expression parses to the constant undefined
Parse(s) ==
  LET ts == Tokenize(s)
  IN  IF ts = <<>> THEN Parsed([t |-> "undefined"], 1)
      ELSE IF \E i \in DOMAIN ts : ts[i].type = "UNKNOWN" THEN SyntaxError
      ELSE LET r == ParseAddSubtract(ts, 1)
           IN  IF r.ok /\ r.p = Len(ts) + 1 THEN r ELSE SyntaxError

\* node.traverse: the names of the SymbolNodes of a tree, a call's function
\* name being a SymbolNode too
RECURSIVE SymbolNames(_)
SymbolNames(n) ==
  IF n.t = "sym" THEN {n.name}
  ELSE IF n.t \in {"op", "paren", "call"} THEN
    (IF n.t = "call" THEN {n.fn} ELSE {})
      \cup UNION { SymbolNames(n.args[i]) : i \in DOMAIN n.args }
  ELSE {}

(***************************************************************************)
(* Values and evaluation                                                   *)
(***************************************************************************)

Num(n) == [t |-> "num", v |-> n]

\* a finite real that is no integer; its value is not tracked
Real == [t |-> "real"]

Inf(sgn) == [t |-> "inf", s |-> sgn]

NaN == [t |-> "nan"]

\* re and im are Num or Real
Complex(re, im) == [t |-> "complex", re |-> re, im |-> im]

Unit == [t |-> "unit"]

Function == [t |-> "function"]

Undefined == [t |-> "undefined"]

\* new Error('Undefined symbol ' + name)
UndefinedSymbol(name) == [t |-> "error", message |-> "Undefined symbol", name |-> name]

\* any other exception of parse or evaluate (SyntaxError, 'Undefined
\* function ...', TypeError)
OtherError == [t |-> "error", message |-> "other", name |-> <<>>]

IsError(v) == v.t = "error"

IsRealValued(v) == v.t \in {"num", "real", "inf", "nan"}

Sign(n) == IF n > 0 THEN 1 ELSE IF n < 0 THEN -1 ELSE 0

\* the sign of a real-valued operand; an untracked real counts as positive
\* (pi, e and the inexact quotients of the model's expressions are)
SignOf(v) == IF v.t = "num" THEN Sign(v.v) ELSE IF v.t = "inf" THEN v.s ELSE 1

\* IEEE arithmetic on numbers
NumAdd(a, b) ==
  IF a.t = "nan" \/ b.t = "nan" THEN NaN
  ELSE IF a.t = "inf" /\ b.t = "inf" THEN (IF a.s = b.s THEN a ELSE NaN)
  ELSE IF a.t = "inf" THEN a
  ELSE IF b.t = "inf" THEN b
  ELSE IF a.t = "num" /\ b.t = "num" THEN Num(a.v + b.v)
  ELSE Real

NumNeg(a) ==
  IF a.t = "num" THEN Num(0 - a.v) ELSE IF a.t = "inf" THEN Inf(0 - a.s) ELSE a

NumMul(a, b) ==
  IF a.t = "nan" \/ b.t = "nan" THEN NaN
  ELSE IF a.t = "inf" \/ b.t = "inf" THEN
    (IF SignOf(a) * SignOf(b) = 0 THEN NaN ELSE Inf(SignOf(a) * SignOf(b)))
  ELSE IF a.t = "num" /\ b.t = "num" THEN Num(a.v * b.v)
  ELSE IF a = Num(0) \/ b = Num(0) THEN Num(0)
  ELSE Real

NumDiv(a, b) ==
  IF a.t = "nan" \/ b.t = "nan" THEN NaN
  ELSE IF b.t = "inf" THEN (IF a.t = "inf" THEN NaN ELSE Num(0))
  ELSE IF a.t = "inf" THEN (IF SignOf(b) = 0 THEN a ELSE Inf(a.s * SignOf(b)))
  ELSE IF b = Num(0) THEN (IF SignOf(a) = 0 THEN NaN ELSE Inf(SignOf(a)))
  ELSE IF a.t = "num" /\ b.t = "num" THEN
    (LET m == IF b.v < 0 THEN 0 - b.v ELSE b.v
         n == IF a.v < 0 THEN 0 - a.v ELSE a.v
     IN  IF n % m = 0 THEN Num(Sign(a.v) * Sign(b.v) * (n \div m)) ELSE Real)
  ELSE IF a = Num(0) THEN Num(0)
  ELSE Real

\* the complex number of a number
AsComplex(v) == IF v.t = "complex" THEN v ELSE Complex(v, Num(0))

\* math.add, math.multiply and math.divide on the values of the model; a
\* complex operand gives a complex result, also when its im is 0
Arith(op, a, b) ==
  IF ~(a.t \in {"num", "real", "inf", "nan", "complex", "unit"})
     \/ ~(b.t \in {"num", "real", "inf", "nan", "complex", "unit"}) THEN OtherError
  ELSE IF a.t = "unit" \/ b.t = "unit" THEN
    (IF op = "+" /\ a.t # b.t THEN OtherError
     ELSE IF a.t = "complex" \/ b.t = "complex" THEN OtherError
     ELSE Unit)
  ELSE IF a.t = "complex" \/ b.t = "complex" THEN
    LET u == AsComplex(a)
        w == AsComplex(b)
    IN  IF op = "+" THEN Complex(NumAdd(u.re, w.re), NumAdd(u.im, w.im))
        ELSE IF op = "*" THEN
          Complex(NumAdd(NumMul(u.re, w.re), NumNeg(NumMul(u.im, w.im))),
                  NumAdd(NumMul(u.re, w.im), NumMul(u.im, w.re)))
        ELSE \* (u * conj(w)) / |w|^2
          LET d == NumAdd(NumMul(w.re, w.re), NumMul(w.im, w.im))
          IN  Complex(NumDiv(NumAdd(NumMul(u.re, w.re), NumMul(u.im, w.im)), d),
                      NumDiv(NumAdd(NumMul(u.im, w.re), NumNeg(NumMul(u.re, w.im))), d))
  ELSE IF op = "+" THEN NumAdd(a, b)
  ELSE IF op = "*" THEN NumMul(a, b)
  ELSE NumDiv(a, b)

\* the constants of the math namespace that the model's symbols can name
MathConstant(name) ==
  IF name = <<"i">> THEN Complex(Num(0), Num(1))
  ELSE IF name \in { <<"e">>, <<"E">>, <<"p","i">>, <<"P","I">>, <<"p","h","i">> } THEN Real
  ELSE Undefined

\* the names n of the math namespace with typeof math[n] === 'function'
MathFunctions ==
  { <<"s","i","n">>, <<"c","o","s">>, <<"t","a","n">>, <<"a","s","i","n">>,
    <<"a","c","o","s">>, <<"a","t","a","n">>, <<"l","o","g">>,
    <<"s","q","r","t">>, <<"a","b","s">>, <<"e","x","p">> }

\* the unit names a single letter can spell
UnitNames == { <<"m">>, <<"s">>, <<"g">> }

\* the largest r with r * r <= n
RECURSIVE IntSqrt(_)
IntSqrt(n) ==
  IF n < 2 THEN n
  ELSE LET r == 2 * IntSqrt(n \div 4)
       IN  IF (r + 1) * (r + 1) > n THEN r ELSE r + 1

\* the n with b^n = a, or -1 when a is no power of b (a >= 1, b >= 2)
RECURSIVE IntLog(_, _)
IntLog(a, b) ==
  IF a = 1 THEN 0
  ELSE IF a % b # 0 THEN -1
  ELSE LET r == IntLog(a \div b, b) IN IF r < 0 THEN -1 ELSE r + 1

\* math.sqrt, math.abs and math.log(x, base) on the values of the model;
\* the other functions give an untracked real on a number
CallMath(fn, args) ==
  IF args = <<>> \/ \E i \in DOMAIN args : ~(args[i].t \in {"num", "real"}) THEN
    (IF args # <<>> /\ \A i \in DOMAIN args : args[i].t \in {"num", "real", "inf", "nan", "complex"}
       THEN NaN ELSE OtherError)
  ELSE IF fn = <<"s","q","r","t">> /\ Len(args) = 1 THEN
    LET a == args[1]
    IN  IF a.t = "real" THEN Real
        ELSE IF a.v < 0 THEN
          Complex(Num(0), IF IntSqrt(0 - a.v) * IntSqrt(0 - a.v) = 0 - a.v
                            THEN Num(IntSqrt(0 - a.v)) ELSE Real)
        ELSE IF IntSqrt(a.v) * IntSqrt(a.v) = a.v THEN Num(IntSqrt(a.v))
        ELSE Real
  ELSE IF fn = <<"a","b","s">> /\ Len(args) = 1 THEN
    (IF args[1].t = "num" THEN Num(args[1].v * Sign(args[1].v)) ELSE Real)
  ELSE IF fn = <<"l","o","g">> /\ Len(args) \in {1, 2} THEN
    LET a == args[1]
    IN  IF a.t = "num" /\ a.v = 0 THEN Inf(-1)
        ELSE IF a.t = "num" /\ a.v < 0 THEN Complex(Real, Real)
        ELSE IF a = Num(1) THEN Num(0)
        ELSE IF Len(args) = 2 /\ a.t = "num" /\ args[2].t = "num" /\ args[2].v >= 2 THEN
          (IF IntLog(a.v, args[2].v) >= 0 THEN Num(IntLog(a.v, args[2].v)) ELSE Real)
        ELSE Real
  ELSE IF Len(args) = 1 THEN
    (IF args[1] = Num(0) /\ fn \in { <<"s","i","n">>, <<"t","a","n">>, <<"a","s","i","n">>, <<"a","t","a","n">> }
       THEN Num(0) ELSE Real)
  ELSE OtherError

\* the first error among the values vs, or <<>>
FirstError(vs) ==
  IF \E i \in DOMAIN vs : IsError(vs[i])
    THEN <<vs[CHOOSE i \in DOMAIN vs : IsError(vs[i]) /\ \A j \in 1..(i - 1) : ~IsError(vs[j])]>>
    ELSE <<>>

\* node.evaluate(scope): scope maps names to values.  A symbol is looked up
\* in the scope, then in the math namespace, then among the units; a call
\* resolves its function before it evaluates its arguments.
RECURSIVE EvalNode(_, _)
EvalNode(n, scope) ==
  IF n.t = "undefined" THEN Undefined
  ELSE IF n.t = "num" THEN Num(n.v)
  ELSE IF n.t = "sym" THEN
    IF n.name \in DOMAIN scope THEN scope[n.name]
    ELSE IF MathConstant(n.name) # Undefined THEN MathConstant(n.name)
    ELSE IF n.name \in MathFunctions THEN Function
    ELSE IF n.name \in UnitNames THEN Unit
    ELSE UndefinedSymbol(n.name)
  ELSE IF n.t = "paren" THEN EvalNode(n.args[1], scope)
  ELSE LET vs == [i \in DOMAIN n.args |-> EvalNode(n.args[i], scope)]
           err == FirstError(vs)
       IN  IF n.t = "op" THEN
             (IF err # <<>> THEN err[1] ELSE Arith(n.op, vs[1], vs[2]))
           ELSE \* a call
             IF n.fn \in DOMAIN scope \/ ~(n.fn \in MathFunctions) THEN OtherError
             ELSE IF err # <<>> THEN err[1]
             ELSE CallMath(n.fn, vs)

\* evaluate(expr, scope) of mathjs
evaluate(expr, scope) ==
  LET r == Parse(expr)
  IN  IF r.ok THEN EvalNode(r.node, scope) ELSE OtherError

(***************************************************************************)
(* State                                                                   *)
(***************************************************************************)

VARIABLES
  \* the normalizer, run on one expression
  expression,      \* the raw expression
  normalizedExpr,  \* GraphView.tsx 163: let normalizedExpr
  npc,             \* "raw", "rewritten" (after line 172) or "split" (after line 193)
  \* one call of update (GraphView.tsx 59-238), from line 144 on
  props,           \* the props of GraphView: functions and parameters
  xDomain,         \* xScale.domain()
  dx,              \* line 161
  pc,              \* the position in update
  fi,              \* the index of forEach in props.functions
  sampleExpr,      \* normalizedExpr of the entry being plotted
  x,               \* the loop variable of line 195
  scope,           \* line 197
  y,               \* line 202
  err,             \* the exception of the first evaluate of this sample, or <<>>
  evals,           \* the calls of evaluate in this sample
  points,          \* line 159
  paths,           \* the paths appended to g, in order
  \* the GraphView component
  dimensions,      \* GraphView.tsx 13: useState({ width: 0, height: 0 })
  transformRef,    \* GraphView.tsx 14: transformRef.current
  zoomProperty,    \* the __zoom property d3-zoom keeps on the svg element
  transition,      \* the running transition of resetView: <<>> or <<[from |-> its start transform]>>
  svg,             \* what the svg element shows: <<>> or <<the drawing>>
  lastGesture,     \* history: "none", "gesture" or "reset", the last of the two to complete
  \* the grapher state of App
  graphFunctions,  \* App.tsx 715
  graphParameters, \* App.tsx 716
  graphEditingId,  \* App.tsx 718; 0 is null
  submitted,       \* history: the expressions the last handler passed to addGraphFunction
  \* the scanner state of App
  graphIsScanning,      \* App.tsx 721
  graphScannedResults,  \* App.tsx 722
  graphLastImageData,   \* App.tsx 723; 0 is null
  graphSelectedIndices, \* App.tsx 724, as positions from 1
  requests,        \* the scan requests in their order of start: image and phase
  shown            \* history: the request graphScannedResults came from, 0 for none

normVars == <<expression, normalizedExpr, npc>>

loopVars == <<xDomain, dx, pc, fi, sampleExpr, x, scope, y, err, evals, points, paths>>

sampleVars == <<props, loopVars>>

viewVars == <<dimensions, transformRef, zoomProperty, transition, svg, lastGesture>>

appVars == <<graphFunctions, graphParameters, graphEditingId, submitted>>

scanVars == <<graphIsScanning, graphScannedResults, graphLastImageData, graphSelectedIndices,
              requests, shown>>

vars == <<normVars, sampleVars, viewVars, appVars, scanVars>>

(***************************************************************************)
(* The normalizer as a process: lines 163-172, then line 193               *)
(***************************************************************************)

\* the longest input, in pieces
MaxPieces == 4

\* the pieces the inputs are made of
Pieces ==
  { <<"k">>, <<"x">>, <<"S","i","n">>, <<"s","i","n","(">>, <<"l","o","g","2","(">>,
    <<"(","x">>, <<"+","1",")">>, <<"y"," ","=">> }

RECURSIVE Concat(_)
Concat(ps) == IF ps = <<>> THEN <<>> ELSE Head(ps) \o Concat(Tail(ps))

Inputs == { Concat(ps) : ps \in UNION { [1..n -> Pieces] : n \in 1..MaxPieces } }

\* no expression is being normalized
NormIdle ==
  /\ expression = <<>>
  /\ normalizedExpr = <<>>
  /\ npc = "idle"

\* update is not running
LoopIdle ==
  /\ xDomain = <<0, 0>>
  /\ dx = 1
  /\ pc = "done"
  /\ fi = 1
  /\ sampleExpr = <<>>
  /\ x = 0
  /\ scope = <<>>
  /\ y = [t |-> "nan"]
  /\ err = <<>>
  /\ evals = 0
  /\ points = <<>>
  /\ paths = <<>>

\* the scale 1, in the model's units of scale
KOne == 10000

\* d3.zoomIdentity
zoomIdentity == [k |-> KOne, x |-> 0, y |-> 0]

\* the side of the container, in pixels, when it is not 0
Side == 200

\* GraphView.tsx 13-14 and an svg element without children
ViewInit ==
  /\ dimensions = [width |-> 0, height |-> 0]
  /\ transformRef = zoomIdentity
  /\ zoomProperty = zoomIdentity
  /\ transition = <<>>
  /\ svg = <<>>
  /\ lastGesture = "none"

\* App.tsx 715-724
AppInit ==
  /\ graphFunctions = <<>>
  /\ graphParameters = <<>>
  /\ graphEditingId = 0
  /\ submitted = <<>>
  /\ graphIsScanning = FALSE
  /\ graphScannedResults = <<>>
  /\ graphLastImageData = 0
  /\ graphSelectedIndices = {}
  /\ requests = <<>>
  /\ shown = 0

NoProps == [functions |-> <<>>, parameters |-> <<>>]

NormInit ==
  /\ expression \in Inputs
  /\ normalizedExpr = expression
  /\ npc = "raw"
  /\ props = NoProps
  /\ LoopIdle
  /\ ViewInit
  /\ AppInit

\* lines 163-172
RewriteStep ==
  /\ npc = "raw"
  /\ normalizedExpr' = Rewrite(expression)
  /\ npc' = "rewritten"
  /\ UNCHANGED <<expression, sampleVars, viewVars, appVars, scanVars>>

\* line 193
SplitStep ==
  /\ npc = "rewritten"
  /\ normalizedExpr' = splitImplicitMultiplication(normalizedExpr)
  /\ npc' = "split"
  /\ UNCHANGED <<expression, sampleVars, viewVars, appVars, scanVars>>

NormNext == RewriteStep \/ SplitStep

SpecNorm == NormInit /\ [][NormNext]_vars

\* does the literal pat occur in s (ci: whatever the case)
Contains(s, pat, ci) == \E i \in 1..Len(s) : MatchAt(s, i, pat, ci)

\* C1: once splitImplicitMultiplication has run, every known function name
\* that its input contains is in its result, intact, and nothing of a
\* placeholder __FN<i>__ is left in the result.
C1_NamesIntact ==
  npc = "split" =>
    /\ \A i \in 1..Len(functions) :
         Contains(Rewrite(expression), functions[i], TRUE)
           => Contains(normalizedExpr, functions[i], TRUE)
    /\ ~Contains(normalizedExpr, <<"_", "_">>, FALSE)

\* the depth of parentheses after each prefix of s, -1 once it went negative
RECURSIVE Depth(_, _, _)
Depth(s, i, d) ==
  IF d < 0 THEN 0 - 1
  ELSE IF i > Len(s) THEN d
  ELSE Depth(s, i + 1, IF s[i] = "(" THEN d + 1 ELSE IF s[i] = ")" THEN d - 1 ELSE d)

Balanced(s) == Depth(s, 1, 0) = 0

\* the arguments E of the inputs log2(E): balanced, not empty, and without
\* anything the other rewrites of lines 163-172 touch
Log2 == <<"l","o","g","2","(">>

IsLog2Of(e) ==
  /\ Len(e) > Len(Log2) + 1
  /\ MatchAt(e, 1, Log2, FALSE)
  /\ e[Len(e)] = ")"
  /\ LET E == SubSeq(e, Len(Log2) + 1, Len(e) - 1)
     IN  Balanced(E) /\ ~Contains(E, <<"=">>, FALSE) /\ ~Contains(E, <<"2">>, FALSE)

\* C10: the rewrites turn log2(E) into log(E, 2) for every balanced E, and
\* what the sampler evaluates for log2(x+1) is 1 at x = 1.
C10_LogBase ==
  /\ (npc = "rewritten" /\ IsLog2Of(expression)) =>
       normalizedExpr = <<"l","o","g","(">> \o SubSeq(expression, Len(Log2) + 1, Len(expression) - 1)
                          \o <<",", " ", "2", ")">>
  /\ (npc = "split" /\ expression = Log2 \o <<"x","+","1",")">>) =>
       evaluate(normalizedExpr, (<<"x">> :> Num(1))) = Num(1)

\* the end of the run of letters that starts at i
RECURSIVE LetterRunEnd(_, _)
LetterRunEnd(s, i) == IF i <= Len(s) /\ IsLetter(s[i]) THEN LetterRunEnd(s, i + 1) ELSE i

\* from i on, every run of letters of s is one letter or one of the known
\* function names, as written in the list
RECURSIVE RunsNormal(_, _)
RunsNormal(s, i) ==
  IF i > Len(s) THEN TRUE
  ELSE IF ~IsLetter(s[i]) THEN RunsNormal(s, i + 1)
  ELSE LET j == LetterRunEnd(s, i)
       IN  /\ (j - i = 1 \/ \E f \in 1..Len(functions) : functions[f] = SubSeq(s, i, j - 1))
           /\ RunsNormal(s, j)

\* an expression the normalizer has nothing to do on: no = prefix, no
\* inverse, log2, log10 or π shorthand, no white space at its ends, and no
\* two adjacent single-letter identifiers
AlreadyNormalized(e) ==
  /\ e = Trim(e)
  /\ ~Contains(e, <<"=">>, FALSE)
  /\ ~Contains(e, <<"^">>, FALSE)
  /\ ~Contains(e, <<"l","o","g","2">>, TRUE)
  /\ ~Contains(e, <<"l","o","g","1","0">>, TRUE)
  /\ ~Contains(e, <<"π">>, FALSE)
  /\ RunsNormal(e, 1)

\* C11: the normalizer returns an already-normalized expression as it is.
C11_Identity ==
  (npc = "split" /\ AlreadyNormalized(expression)) => normalizedExpr = expression

(***************************************************************************)
(* The sampler: update from line 144 on, one action per step               *)
(***************************************************************************)

\* 1e100 and -1e100 (lines 219-220)
Sentinel(sgn) == [t |-> "sentinel", s |-> sgn]

\* typeof v === 'number'
IsNumber(v) == v.t \in {"num", "real", "inf", "nan", "sentinel"}

\* the class \w
IsWordChar(c) == IsLetter(c) \/ IsDigit(c) \/ c = "_"

RECURSIVE WordEnd(_, _)
WordEnd(s, i) == IF i <= Len(s) /\ IsWordChar(s[i]) THEN WordEnd(s, i + 1) ELSE i

\* err.message.match(/Undefined symbol (\w+)/): the group, <<>> for no match
MatchUndefinedSymbol(e) ==
  IF e.message = "Undefined symbol" THEN SubSeq(e.name, 1, WordEnd(e.name, 1) - 1) ELSE <<>>

\* line 197-200: x, pi, e and ans, then every parameter's value
BuildScope(xv, parameters) ==
  LET base == (<<"x">> :> Num(xv)) @@ (<<"p","i">> :> Real) @@ (<<"e">> :> Real)
              @@ (<<"a","n","s">> :> Num(0))
  IN  [n \in DOMAIN base \cup DOMAIN parameters |->
         IF n \in DOMAIN parameters THEN Num(parameters[n].value) ELSE base[n]]

\* lines 205-207: a complex result becomes its real part or NaN
RealPart(v) ==
  IF v.t = "complex" THEN (IF v.im = Num(0) THEN v.re ELSE NaN) ELSE v

\* the y of the point without lines 219-220
PointOfRaw(v) == IF IsNumber(v) THEN v ELSE NaN

\* lines 218-223: the y of the point pushed for the result v
PointOf(v) ==
  IF IsNumber(v) THEN (IF v.t = "inf" THEN Sentinel(v.s) ELSE v) ELSE NaN

\* an exception that no catch takes leaves update
ThrownOut == "escaped"

\* where an exception thrown inside the try of line 196 continues: the
\* catch of line 224
Thrown == "catch224"

\* !isNaN(d[1]) && isFinite(d[1]) (line 157)
defined(d) == ~(d[2].t = "nan") /\ ~(d[2].t = "inf")

\* the segments of the path d3.line draws: the pairs of consecutive points,
\* by the index of the first, that are both defined
Segments(pts) == { i \in 1..(Len(pts) - 1) : defined(pts[i]) /\ defined(pts[i + 1]) }

\* functions.forEach: the next entry, or the end of update
PlotEntry ==
  /\ pc = "forEach"
  /\ IF fi > Len(props.functions)
       THEN /\ pc' = "done"
            /\ UNCHANGED <<fi, sampleExpr, x, points>>
       ELSE IF props.functions[fi].expression = <<>>
         THEN \* line 145
              /\ fi' = fi + 1
              /\ UNCHANGED <<pc, sampleExpr, x, points>>
         ELSE /\ sampleExpr' = Normalize(props.functions[fi].expression)
              /\ points' = <<>>
              /\ x' = xDomain[1]
              /\ pc' = "for"
              /\ UNCHANGED fi
  /\ UNCHANGED <<props, xDomain, dx, scope, y, err, evals, paths, normVars, viewVars, appVars, scanVars>>

\* line 195: the loop test, and lines 197-200
LoopTest ==
  /\ pc = "for"
  /\ IF x <= xDomain[2]
       THEN /\ scope' = BuildScope(x, props.parameters)
            /\ err' = <<>>
            /\ evals' = 0
            /\ pc' = "try"
       ELSE /\ pc' = "append"
            /\ UNCHANGED <<scope, err, evals>>
  /\ UNCHANGED <<props, xDomain, dx, fi, sampleExpr, x, y, points, paths, normVars, viewVars, appVars, scanVars>>

\* lines 203-207
TryEvaluate ==
  /\ pc = "try"
  /\ LET v == evaluate(sampleExpr, scope)
     IN  /\ evals' = evals + 1
         /\ IF IsError(v)
              THEN /\ err' = <<v>>
                   /\ pc' = "catch208"
                   /\ UNCHANGED y
              ELSE /\ y' = RealPart(v)
                   /\ pc' = "push"
                   /\ UNCHANGED err
  /\ UNCHANGED <<props, xDomain, dx, fi, sampleExpr, x, scope, points, paths, normVars, viewVars, appVars, scanVars>>

\* lines 208-216
CatchRetry ==
  /\ pc = "catch208"
  /\ LET name == MatchUndefinedSymbol(err[1])
     IN  IF name # <<>>
           THEN LET bound == [n \in DOMAIN scope \cup {name} |->
                                IF n = name THEN Num(1) ELSE scope[n]]
                    v == evaluate(sampleExpr, bound)
                IN  /\ scope' = bound
                    /\ evals' = evals + 1
                    /\ IF IsError(v)
                         THEN pc' = Thrown /\ UNCHANGED y
                         ELSE pc' = "push" /\ y' = v
           ELSE /\ pc' = Thrown
                /\ UNCHANGED <<scope, evals, y>>
  /\ UNCHANGED <<props, xDomain, dx, fi, sampleExpr, x, err, points, paths, normVars, viewVars, appVars, scanVars>>

\* lines 218-223, and x += dx
PushPoint ==
  /\ pc = "push"
  /\ points' = Append(points, <<x, PointOf(y)>>)
  /\ x' = x + dx
  /\ pc' = "for"
  /\ UNCHANGED <<props, xDomain, dx, fi, sampleExpr, scope, y, err, evals, paths, normVars, viewVars, appVars, scanVars>>

\* lines 224-226, and x += dx
CatchPush ==
  /\ pc = "catch224"
  /\ points' = Append(points, <<x, NaN>>)
  /\ x' = x + dx
  /\ pc' = "for"
  /\ UNCHANGED <<props, xDomain, dx, fi, sampleExpr, scope, y, err, evals, paths, normVars, viewVars, appVars, scanVars>>

\* lines 229-236
AppendPath ==
  /\ pc = "append"
  /\ paths' = Append(paths, [entry |-> fi, stroke |-> props.functions[fi].color, d |-> points])
  /\ fi' = fi + 1
  /\ pc' = "forEach"
  /\ UNCHANGED <<props, xDomain, dx, sampleExpr, x, scope, y, err, evals, points, normVars, viewVars, appVars, scanVars>>

\* the half-width of the sampled domain; dx is 1
SampleSpan == 4

\* the longest function list of the sampler's runs
MaxEntries == 2

\* the expressions of the sampler's runs: k x, a square root, a symbol that
\* is not made of word characters, a pole, a syntax error, the empty
\* expression, a product of k with the square of the imaginary unit, and a
\* pole whose sign is the sign of k
SampleExprs ==
  { <<"k","x">>, <<"s","q","r","t","(","x",")">>, <<"x","+","θ">>, <<"1","/","x">>,
    <<"(","x","+">>, <<>>, <<"k","*","i","*","i">>, <<"k","/","x">> }

\* { name: v, value: 1, min: -10, max: 10, step: 0.1 } (App.tsx 807), with
\* the value given; step is the fraction <<1, 10>>
Parameter(name, value) ==
  [name |-> name, value |-> value, min |-> -10, max |-> 10, step |-> <<1, 10>>]

\* App.tsx 729-733
COLORS == << "#6366f1", "#ec4899", "#f59e0b", "#10b981", "#ef4444", "#3b82f6",
             "#8b5cf6", "#06b6d4", "#f97316", "#14b8a6", "#ffffff" >>

\* the parameter maps with the given names, each at one of the values
ParameterMaps(names, values) ==
  UNION { { [n \in ns |-> Parameter(n, v[n])] : v \in [ns -> values] } : ns \in SUBSET names }

SamplerProps ==
  { [functions |-> [i \in 1..Len(es) |-> [expression |-> es[i], color |-> COLORS[i]]],
     parameters |-> ps] :
      es \in UNION { [1..m -> SampleExprs] : m \in 1..MaxEntries },
      ps \in ParameterMaps({<<"k">>}, {3, 0 - 3}) }

\* update reaches line 144 with the props of the render, on a container
\* of Side by Side
SamplerInit ==
  /\ props \in SamplerProps
  /\ xDomain = <<0 - SampleSpan, SampleSpan>>
  /\ dx = 1
  /\ pc = "forEach"
  /\ fi = 1
  /\ sampleExpr = <<>>
  /\ x = 0
  /\ scope = <<>>
  /\ y = [t |-> "nan"]
  /\ err = <<>>
  /\ evals = 0
  /\ points = <<>>
  /\ paths = <<>>
  /\ NormIdle
  /\ dimensions = [width |-> Side, height |-> Side]
  /\ transformRef = zoomIdentity
  /\ zoomProperty = zoomIdentity
  /\ transition = <<>>
  /\ svg = <<>>
  /\ lastGesture = "none"
  /\ AppInit

SamplerNext ==
  \/ PlotEntry
  \/ LoopTest
  \/ TryEvaluate
  \/ CatchRetry
  \/ PushPoint
  \/ CatchPush
  \/ AppendPath

SpecSampler == SamplerInit /\ [][SamplerNext]_vars

\* C5: a sample evaluates at most twice; when its first evaluation failed
\* with an undefined-symbol error naming s, the sample went on with s bound
\* to 1 in its scope and a second evaluation; and k x with no parameter k
\* has the value of x.
C5_BindAndRetry ==
  /\ evals <= 2
  /\ (pc \in {"push", "catch224"} /\ err # <<>> /\ err[1].message = "Undefined symbol") =>
       /\ evals = 2
       /\ err[1].name \in DOMAIN scope
       /\ scope[err[1].name] = Num(1)
  /\ (pc = "push" /\ sampleExpr = <<"k"," ","x">> /\ <<"k">> \notin DOMAIN props.parameters) =>
       y = Num(x)

\* C24: when the evaluation that gave the sample its value (the first one,
\* or the retry with the undefined symbol bound) returned a complex number,
\* the y of the point is its real part if its imaginary part is 0, and NaN
\* otherwise.
C24_ComplexSample ==
  pc = "push" =>
    LET v == evaluate(sampleExpr, scope)
    IN  v.t = "complex" =>
          PointOf(y) = IF v.im = Num(0) THEN PointOf(v.re) ELSE NaN

\* C26: a result +Infinity is recorded as 1e100 and -Infinity as -1e100, the
\* point recorded for it is a defined one (it does not break the path), and
\* no point of the array or of a finished path has an infinite y.
C26_NoInfiniteSample ==
  [][ /\ (pc = "push" /\ y.t = "inf") =>
           /\ points' = Append(points, <<x, Sentinel(y.s)>>)
           /\ defined(points'[Len(points')])
      /\ \A i \in DOMAIN points' : points'[i][2].t \in {"num", "real", "nan", "sentinel"}
      /\ \A j \in DOMAIN paths' : \A i \in DOMAIN paths'[j].d :
           paths'[j].d[i][2].t \in {"num", "real", "nan", "sentinel"} ]_vars

\* the paths of k/x with k = -3 and of 1/x are finished: at x = 0 the first
\* has -1e100, the second 1e100, each between two defined neighbours
C26_Witness ==
  /\ pc = "done"
  /\ Len(paths) = 2
  /\ props.functions[1].expression = <<"k","/","x">>
  /\ props.functions[2].expression = <<"1","/","x">>
  /\ paths[1].d[SampleSpan + 1] = <<0, Sentinel(0 - 1)>>
  /\ paths[2].d[SampleSpan + 1] = <<0, Sentinel(1)>>
  /\ {SampleSpan, SampleSpan + 1} \subseteq Segments(paths[1].d)


Plotted == { i \in DOMAIN props.functions : props.functions[i].expression # <<>> }

\* C6: no exception leaves update; inside the loop the points pushed are
\* one per iteration done; and at the end every entry with an expression
\* has its path, of one point per sample.
C6_ErrorsContained ==
  /\ pc # "escaped"
  /\ pc \in {"for", "try", "catch208", "push", "catch224", "append"} =>
       Len(points) = (x - xDomain[1]) \div dx
  /\ pc = "done" =>
       /\ Len(paths) = Cardinality(Plotted)
       /\ \A j \in DOMAIN paths :
            /\ paths[j].entry \in Plotted
            /\ Len(paths[j].d) = ((xDomain[2] - xDomain[1]) \div dx) + 1

\* an entry whose every evaluation throws came first, and the entry after
\* it has its path with a number in it
C6_Witness ==
  /\ pc = "done"
  /\ Len(props.functions) = 2
  /\ props.functions[1].expression = <<"(","x","+">>
  /\ Len(paths) = 2
  /\ \A i \in DOMAIN paths[1].d : paths[1].d[i][2].t = "nan"
  /\ \E i \in DOMAIN paths[2].d : paths[2].d[i][2].t = "num"

\* C9: the path of sqrt(x) has NaN at every negative x, a real number at
\* every other x, and no segment that begins at a negative x.
C9_SqrtGap ==
  pc = "done" =>
    \A j \in DOMAIN paths :
      props.functions[paths[j].entry].expression = <<"s","q","r","t","(","x",")">> =>
        /\ \A i \in DOMAIN paths[j].d :
             IF paths[j].d[i][1] < 0
               THEN paths[j].d[i][2].t = "nan"
               ELSE paths[j].d[i][2].t \in {"num", "real"}
        /\ \A i \in Segments(paths[j].d) : paths[j].d[i][1] >= 0

(***************************************************************************)
(* The GraphView component: resize, the render effect, pan and zoom, and   *)
(* resetView.  Lengths are pixels; a scale k is held in units of 1/KOne.   *)
(* d3-zoom keeps the element's current transform in its __zoom property    *)
(* and reports a gesture to the listeners of the zoom behaviour that       *)
(* handles it.                                                             *)
(***************************************************************************)

\* scaleExtent([0.01, 1000]) (line 51), in units of 1/KOne
KMin == 100

KMax == 10000000

\* the largest pan offset the model follows, in pixels
MaxPan == 400

\* the sizes the ResizeObserver reports
Sizes == { [width |-> 0, height |-> 0], [width |-> Side, height |-> Side],
           [width |-> 2 * Side, height |-> Side] }

\* the sizes of a container that is laid out
LaidOut == { d \in Sizes : d.width # 0 /\ d.height # 0 }

\* the zoom factors of the wheel gestures, <<numerator, denominator>>: from
\* the scale 1 they request the scales 5000 and 0.0001
WheelFactors == { <<5000, 1>>, <<1, 10000>> }

\* the pointer movements of the drag gestures, in pixels
DragMoves == { <<300, 0>>, <<-300, 0>> }

Max(a, b) == IF a > b THEN a ELSE b

Min(a, b) == IF a < b THEN a ELSE b

Abs(a) == IF a < 0 THEN 0 - a ELSE a

\* floor(a / b) for b > 0 and any a
FloorDiv(a, b) == IF a >= 0 THEN a \div b ELSE 0 - ((0 - a + b - 1) \div b)

\* Math.max(scaleExtent[0], Math.min(scaleExtent[1], k * f)) of d3-zoom
scaleExtent(k, f) ==
  IF f[1] > 1 /\ k > KMax \div f[1] THEN KMax
  ELSE Max(KMin, Min(KMax, (k * f[1]) \div f[2]))

\* line 38 and line 69
unitsToShowV == 20

targetPixels == 60

RECURSIVE Gcd(_, _)
Gcd(a, b) == IF b = 0 THEN a ELSE Gcd(b, a % b)

\* roughStep of line 70 for the height and the scale t.k, as the fraction
\* <<n, d>> in lowest terms: targetPixels / ((height / unitsToShowV) * k)
roughStep(height, k) ==
  LET a  == targetPixels * unitsToShowV * KOne
      g1 == Gcd(a, k)
      g2 == Gcd(a \div g1, height)
  IN  <<(a \div g1) \div g2, (k \div g1) * (height \div g2)>>

\* Math.floor(Math.log10(n / d)) of line 72
RECURSIVE FloorLog10(_, _)
FloorLog10(n, d) ==
  IF n < d THEN FloorLog10(10 * n, d) - 1
  ELSE IF n >= 10 * d THEN FloorLog10(n, 10 * d) + 1
  ELSE 0

\* 10^i for i >= 0
RECURSIVE Pow10(_)
Pow10(i) == IF i = 0 THEN 1 ELSE 10 * Pow10(i - 1)

\* a multiplier that goes from 1 to 2 at 2.5
MultiplierAt25(n, d) ==
  IF 2 * n < 5 * d THEN 1
  ELSE IF 2 * n < 7 * d THEN 2
  ELSE IF 2 * n < 15 * d THEN 5
  ELSE 10

\* lines 74-78: the multiplier for norm = n / d
Multiplier(n, d) ==
  IF 2 * n < 3 * d THEN 1
  ELSE IF 2 * n < 7 * d THEN 2
  ELSE IF 2 * n < 15 * d THEN 5
  ELSE 10

\* step of lines 70-78, as the multiplier m and the exponent e of p10
\* (for a height of 0 the quotient of line 70 is Infinity, norm is NaN, all
\* three tests fail and step is 10 * Infinity)
GridStep(height, k) ==
  IF height = 0 THEN Inf(1)
  ELSE LET r == roughStep(height, k)
           e == FloorLog10(r[1], r[2])
           m == IF e >= 0 THEN Multiplier(r[1], r[2] * Pow10(e))
                          ELSE Multiplier(r[1] * Pow10(0 - e), r[2])
       IN  [m |-> m, e |-> e]

\* what update(t) draws (lines 59-238): grid, axes and one path per entry,
\* all determined by the props, the transform and the dimensions it uses
Drawing(pr, t, dims) ==
  [functions |-> pr.functions, parameters |-> pr.parameters, transform |-> t,
   width |-> dims.width, height |-> dims.height, step |-> GridStep(dims.height, t.k)]

\* the effect of lines 28-242, run after a render with the props pr and
\* the dimensions dims: nothing for an empty container; otherwise the svg is
\* cleared, zoom.transform applies transformRef.current, which ends a
\* running transition and calls the zoom listener, and update draws
RenderEffect(pr, dims) ==
  IF dims.width = 0 \/ dims.height = 0
    THEN UNCHANGED <<transformRef, zoomProperty, transition, svg>>
    ELSE /\ zoomProperty' = transformRef
         /\ transition' = <<>>
         /\ svg' = <<Drawing(pr, transformRef, dims)>>
         /\ UNCHANGED transformRef

\* the ResizeObserver callback (lines 19-23), reporting one of the sizes,
\* and the render it causes
Resize(sizes) ==
  \E d \in sizes :
    /\ d # dimensions
    /\ dimensions' = d
    /\ RenderEffect(props, d)
    /\ UNCHANGED <<props, lastGesture, loopVars, normVars, appVars, scanVars>>

\* a listener that draws and does not store
DrawOnly(t) ==
  /\ transformRef' = transformRef
  /\ svg' = <<Drawing(props, t, dimensions)>>

\* the zoom listener (lines 52-55) for the transform t
ZoomListener(t) ==
  /\ transformRef' = t
  /\ svg' = <<Drawing(props, t, dimensions)>>

\* a wheel gesture with the pointer on (t.x, t.y), where the point (0, 0)
\* of the untransformed surface is shown: zooming about it keeps the
\* translation.  Like a drag the gesture interrupts a running transition.  d3-zoom
\* ignores a wheel event that leaves the scale as it is.  The gestures of
\* the model are those that request a scale outside the extent.
Wheel ==
  \E f \in WheelFactors :
    LET t == zoomProperty
        t1 == [k |-> scaleExtent(t.k, f), x |-> t.x, y |-> t.y]
    IN  /\ dimensions.width # 0 /\ dimensions.height # 0
        /\ 0 <= t.x /\ t.x <= dimensions.width
        /\ 0 <= t.y /\ t.y <= dimensions.height
        /\ t1.k # t.k
        /\ t1.k \in {KMin, KMax}
        /\ zoomProperty' = t1
        /\ transition' = <<>>
        /\ ZoomListener(t1)
        /\ lastGesture' = "gesture"
        /\ UNCHANGED <<props, dimensions, loopVars, normVars, appVars, scanVars>>

\* a drag gesture: it interrupts a running transition and pans from the
\* element's current transform
Drag ==
  \E m \in DragMoves :
    LET t == zoomProperty
        t1 == [k |-> t.k, x |-> t.x + m[1], y |-> t.y + m[2]]
    IN  /\ dimensions.width # 0 /\ dimensions.height # 0
        /\ Abs(t1.x) <= MaxPan /\ Abs(t1.y) <= MaxPan
        /\ zoomProperty' = t1
        /\ transition' = <<>>
        /\ ZoomListener(t1)
        /\ lastGesture' = "gesture"
        /\ UNCHANGED <<props, dimensions, loopVars, normVars, appVars, scanVars>>

\* resetView (lines 244-250): a transition of 500 ms on the svg element,
\* driven by d3.zoom().transform, a zoom behaviour made for the occasion
resetView ==
  /\ transition' = <<[from |-> zoomProperty]>>
  /\ UNCHANGED <<props, dimensions, transformRef, zoomProperty, svg, lastGesture,
                 loopVars, normVars, appVars, scanVars>>

\* the end of the transition: the element's transform is the identity.  The
\* zoom behaviour of line 249 has no listener, so line 52 does not run.
ResetEnd ==
  /\ transition # <<>>
  /\ zoomProperty' = zoomIdentity
  /\ transition' = <<>>
  /\ lastGesture' = "reset"
  /\ UNCHANGED <<props, dimensions, transformRef, svg, loopVars, normVars, appVars, scanVars>>

\* The transition tweens __zoom with d3.interpolateZoom (van Wijk and Nuij)
\* between the view of its start transform a and the view of the identity:
\* a view is the point of the plane at the centre of the container and the
\* width w / k of what the container shows.  When the two centres are far
\* apart for the two widths (4 d^2 > |w1^2 - w0^2|), the path zooms out on
\* the way, to the width sqrt(w0^2 + L^2), L = (w1^2 - w0^2 + 4 d^2) / (4 d),
\* reached L / (2 d) of the way between the centres.  Lengths are computed
\* in tenths of the container's larger side.
PeakFrame(a, dims) ==
  LET w  == Max(dims.width, dims.height)
      px == dims.width \div 2
      py == dims.height \div 2
      cx == FloorDiv((px - a.x) * KOne, a.k)
      cy == FloorDiv((py - a.y) * KOne, a.k)
      qx == FloorDiv((px - cx) * 10, w)
      qy == FloorDiv((py - cy) * 10, w)
      w0 == (10 * KOne) \div a.k
      d2 == qx * qx + qy * qy
      d  == IntSqrt(d2)
      L  == FloorDiv(100 - w0 * w0 + 4 * d2, 4 * d)
      k  == (10 * KOne) \div IntSqrt(w0 * w0 + L * L)
      fx == cx + FloorDiv((px - cx) * L, 2 * d)
      fy == cy + FloorDiv((py - cy) * L, 2 * d)
  IN  IF d > 0 /\ 4 * d2 > Abs(100 - w0 * w0)
        THEN <<[k |-> k, x |-> px - FloorDiv(fx * k, KOne), y |-> py - FloorDiv(fy * k, KOne)]>>
        ELSE <<>>

\* a frame of the transition: the tween sets __zoom; as in ResetEnd, the
\* listener of line 52 does not run.  The model follows the frame at the
\* peak of a path that zooms out, for the transitions that start at the
\* least scale of the extent.
ResetFrame ==
  /\ transition # <<>>
  /\ dimensions.width # 0 /\ dimensions.height # 0
  /\ transition[1].from.k = KMin
  /\ LET f == PeakFrame(transition[1].from, dimensions)
     IN  /\ f # <<>>
         /\ Abs(f[1].x) <= MaxPan /\ Abs(f[1].y) <= MaxPan
         /\ zoomProperty' = f[1]
  /\ UNCHANGED <<props, dimensions, transformRef, transition, svg, lastGesture,
                 loopVars, normVars, appVars, scanVars>>

(***************************************************************************)
(* Parameters and props                                                    *)
(***************************************************************************)

\* the props a parent gives GraphView in the runs of the component alone
ViewProps ==
  { [functions |-> <<>>, parameters |-> <<>>],
    [functions |-> <<[expression |-> <<"k","x">>, color |-> COLORS[1]]>>, parameters |-> <<>>],
    [functions |-> <<[expression |-> <<"k","x">>, color |-> COLORS[1]]>>,
     parameters |-> (<<"k">> :> Parameter(<<"k">>, 2))] }

\* a render of the parent with new props
SetProps ==
  \E pr \in ViewProps :
    /\ pr # props
    /\ props' = pr
    /\ RenderEffect(pr, dimensions)
    /\ UNCHANGED <<dimensions, lastGesture, loopVars, normVars, appVars, scanVars>>

\* GraphView mounted with one of the props, before the first report of the
\* ResizeObserver
ViewStart ==
  /\ props \in ViewProps
  /\ ViewInit
  /\ NormIdle
  /\ LoopIdle
  /\ AppInit

ViewNext ==
  \/ Resize(Sizes)
  \/ SetProps
  \/ Wheel
  \/ Drag
  \/ resetView
  \/ ResetFrame
  \/ ResetEnd

SpecView == ViewStart /\ [][ViewNext]_vars

\* C3: when a reset was the last to complete, the stored transform is the
\* identity and what is drawn is drawn with the identity, redraws included.
C3_ResetToIdentity ==
  lastGesture = "reset" =>
    /\ transformRef = zoomIdentity
    /\ svg # <<>> => svg[1].transform = zoomIdentity

\* C4: the scale of the stored transform is within [0.01, 1000].
C4_ScaleClamped == KMin <= transformRef.k /\ transformRef.k <= KMax

\* C7: what the svg element holds was drawn from the current function list,
\* parameter map, stored transform and dimensions, and with the transform
\* the element has.
C7_FullRegeneration ==
  svg # <<>> =>
    /\ svg[1] = Drawing(props, transformRef, dimensions)
    /\ transition = <<>> => svg[1].transform = zoomProperty

C18_NothingAtZero ==
  (dimensions.width = 0 \/ dimensions.height = 0) => svg = <<>>

\* the heights and the scales of the grid's runs
GridHeights == {100, 200, 240, 300, 400}

GridScales == {KMin, 200, 500, 1000, 2500, 5000, KOne, 20000, 40000, 100000, 1000000, KMax}

\* update(t) is about to run in a container of one of the heights, at one
\* of the scales
GridInit ==
  /\ dimensions \in { [width |-> 2 * h, height |-> h] : h \in GridHeights }
  /\ transformRef \in { [k |-> k, x |-> 0, y |-> 0] : k \in GridScales }
  /\ zoomProperty = transformRef
  /\ transition = <<>>
  /\ svg = <<>>
  /\ lastGesture = "none"
  /\ props = NoProps
  /\ NormIdle
  /\ LoopIdle
  /\ AppInit

\* the run of the effect that draws the grid
GridDraw ==
  /\ svg = <<>>
  /\ RenderEffect(props, dimensions)
  /\ UNCHANGED <<dimensions, props, lastGesture, loopVars, normVars, appVars, scanVars>>

SpecGrid == GridInit /\ [][GridDraw]_vars

\* C16: the grid step drawn is m * 10^e with e = floor(log10(roughStep)) and
\* m = 1, 2, 5 or 10 as norm = roughStep / 10^e is below 1.5, below 3.5,
\* below 7.5 or not; the norms 1.2, 2.8, 6.0 and 9.0 give 1, 2, 5 and 10.
C16_GridStep ==
  /\ Multiplier(12, 10) = 1
  /\ Multiplier(28, 10) = 2
  /\ Multiplier(60, 10) = 5
  /\ Multiplier(90, 10) = 10
  /\ svg # <<>> =>
       LET r  == roughStep(svg[1].height, svg[1].transform.k)
           st == svg[1].step
           \* norm = nn / dd
           nn == IF st.e >= 0 THEN r[1] ELSE r[1] * Pow10(0 - st.e)
           dd == IF st.e >= 0 THEN r[2] * Pow10(st.e) ELSE r[2]
       IN  /\ dd <= nn /\ nn < 10 * dd
           /\ st.m \in {1, 2, 5, 10}
           /\ (st.m = 1) = (10 * nn < 15 * dd)
           /\ (st.m = 2) = (10 * nn >= 15 * dd /\ 10 * nn < 35 * dd)
           /\ (st.m = 5) = (10 * nn >= 35 * dd /\ 10 * nn < 75 * dd)
           /\ (st.m = 10) = (10 * nn >= 75 * dd)

\* a grid of step 5 * 10^-3 has been drawn at the scale 1000
C16_Witness ==
  /\ svg # <<>>
  /\ svg[1].transform.k = KMax
  /\ svg[1].step = [m |-> 5, e |-> 0 - 3]

(***************************************************************************)
(* The sampling loop on the numbers of JavaScript.  In these runs xDomain, *)
(* dx, x and the pan offset of the transform are doubles m * 2^e, written   *)
(* [m |-> m, e |-> e] with m odd or 0; the inputs are such that every sum   *)
(* is either exact or leaves the larger operand as it is, and every         *)
(* quotient is exact.                                                      *)
(***************************************************************************)

\* the bits of the significand of a double
Precision == 53

\* line 160
samples == 1000

\* the most points an array of the runs can take
MaxPoints == 1001

\* the double m * 2^e
RECURSIVE Fl(_, _)
Fl(m, e) ==
  IF m = 0 THEN [m |-> 0, e |-> 0]
  ELSE IF m % 2 = 0 THEN Fl(m \div 2, e + 1)
  ELSE [m |-> m, e |-> e]

\* the number of bits of n >= 0
RECURSIVE BitLen(_)
BitLen(n) == IF n = 0 THEN 0 ELSE 1 + BitLen(n \div 2)

RECURSIVE Pow2(_)
Pow2(i) == IF i = 0 THEN 1 ELSE 2 * Pow2(i - 1)

\* a + b in round-to-nearest: an operand below a quarter of the unit in the
\* last place of the other one is lost; otherwise the sum is exact here
FlAdd(a, b) ==
  LET topA == a.e + BitLen(Abs(a.m))
      topB == b.e + BitLen(Abs(b.m))
      e    == Min(a.e, b.e)
  IN  IF a.m = 0 THEN b
      ELSE IF b.m = 0 THEN a
      ELSE IF topA - topB >= Precision + 2 THEN a
      ELSE IF topB - topA >= Precision + 2 THEN b
      ELSE Fl(a.m * Pow2(a.e - e) + b.m * Pow2(b.e - e), e)

FlNeg(a) == [m |-> 0 - a.m, e |-> a.e]

FlMul(a, b) == Fl(a.m * b.m, a.e + b.e)

\* a / n for an integer n > 0 whose odd part divides the significand of a
FlDiv(a, n) ==
  LET d == Fl(n, 0) IN Fl(a.m \div d.m, a.e - d.e)

\* a <= b
FlLeq(a, b) == FlAdd(b, FlNeg(a)).m >= 0

\* t.rescaleX(xScaleOrig).domain() (lines 38-44, 62 and 64): the range
\* [0, width] through t.invertX, (px - t.x) / t.k, then through the inverse
\* of the linear scale, a * (1 - u) + b * u at u = px / width, with
\* a = -unitsToShowH / 2 and b = unitsToShowH / 2; the scale t.k is an integer
rescaleX(t, dims) ==
  LET pixelsPerUnit == dims.height \div unitsToShowV
      unitsToShowH  == dims.width \div pixelsPerUnit
      a == Fl(0 - unitsToShowH, 0 - 1)
      b == Fl(unitsToShowH, 0 - 1)
      invertX(px) == FlDiv(FlAdd(Fl(px, 0), FlNeg(t.x)), t.k \div KOne)
      invert(px)  == LET u == FlDiv(px, dims.width)
                     IN  FlAdd(FlMul(a, FlAdd(Fl(1, 0), FlNeg(u))), FlMul(b, u))
  IN  <<invert(invertX(0)), invert(invertX(dims.width))>>

\* the value of the double a for the evaluator: the integer it is, or an
\* untracked real
FlValue(a) ==
  IF a.e >= 0 /\ a.e + BitLen(Abs(a.m)) <= 20 THEN Num(a.m * Pow2(a.e)) ELSE Real

\* the pan offsets of the runs, in pixels: none, one width, and 1000 * 2^60
LoopPans == { Fl(0, 0), Fl(0 - 1000, 0), Fl(0 - 1000, 60) }

\* update(t) is at the forEach of line 144, with the one entry x
LoopInit ==
  /\ dimensions = [width |-> 1000, height |-> 20]
  /\ transformRef \in { [k |-> k, x |-> px, y |-> 0] : k \in {KOne, 2 * KOne}, px \in LoopPans }
  /\ zoomProperty = transformRef
  /\ transition = <<>>
  /\ svg = <<>>
  /\ lastGesture = "none"
  /\ props = [functions |-> <<[expression |-> <<"x">>, color |-> COLORS[1]]>>, parameters |-> <<>>]
  /\ xDomain = <<Fl(0, 0), Fl(0, 0)>>
  /\ dx = Fl(0, 0)
  /\ x = Fl(0, 0)
  /\ pc = "forEach"
  /\ fi = 1
  /\ sampleExpr = <<>>
  /\ scope = <<>>
  /\ y = [t |-> "nan"]
  /\ err = <<>>
  /\ evals = 0
  /\ points = <<>>
  /\ paths = <<>>
  /\ NormIdle
  /\ AppInit

\* lines 62-64 and 144-195: the domain, dx, the normalized expression, and
\* x = xDomain[0]
LoopEnter ==
  /\ pc = "forEach"
  /\ \E d \in {rescaleX(transformRef, dimensions)} :
       /\ xDomain' = d
       /\ dx' = FlDiv(FlAdd(d[2], FlNeg(d[1])), samples)
       /\ x' = d[1]
  /\ sampleExpr' = Normalize(props.functions[fi].expression)
  /\ points' = <<>>
  /\ pc' = "for"
  /\ UNCHANGED <<props, fi, scope, y, err, evals, paths, normVars, viewVars, appVars, scanVars>>

\* one iteration of the loop (lines 195-227): the test, the evaluation, the
\* push, and x += dx
LoopIterate ==
  /\ pc = "for"
  /\ FlLeq(x, xDomain[2])
  /\ Len(points) < MaxPoints
  /\ \E sc \in {[BuildScope(0, props.parameters) EXCEPT ![<<"x">>] = FlValue(x)]} :
      \E v \in {PointOf(RealPart(evaluate(sampleExpr, sc)))} :
        /\ scope' = sc
        /\ y' = v
        /\ points' = Append(points, <<x, v>>)
  /\ x' = FlAdd(x, dx)
  /\ UNCHANGED <<props, xDomain, dx, pc, fi, sampleExpr, err, evals, paths, normVars, viewVars, appVars, scanVars>>

\* the loop goes on but the array cannot grow any more
LoopExhaust ==
  /\ pc = "for"
  /\ FlLeq(x, xDomain[2])
  /\ Len(points) >= MaxPoints
  /\ pc' = "exhausted"
  /\ UNCHANGED <<props, xDomain, dx, fi, sampleExpr, x, scope, y, err, evals, points, paths,
                 normVars, viewVars, appVars, scanVars>>

\* the test of line 195 fails: the path is appended (lines 229-236) and
\* update ends
LoopExit ==
  /\ pc = "for"
  /\ ~FlLeq(x, xDomain[2])
  /\ paths' = Append(paths, [entry |-> fi, stroke |-> props.functions[fi].color, d |-> points])
  /\ pc' = "done"
  /\ UNCHANGED <<props, xDomain, dx, fi, sampleExpr, x, scope, y, err, evals, points,
                 normVars, viewVars, appVars, scanVars>>

LoopNext == LoopEnter \/ LoopIterate \/ LoopExhaust \/ LoopExit

SpecLoop == LoopInit /\ [][LoopNext]_vars

\* C19: the sampling loop comes to its end: every iteration moves x forward,
\* towards the bound xDomain[1] of its test.  (The test and the increment
\* read x, dx and xDomain[1] only, so an iteration that leaves x where it is
\* is followed by the same iteration for ever.)
C19_LoopTerminates ==
  [][ (pc = "for" /\ pc' = "for") => ~FlLeq(x', x) ]_vars

\* C25: the path of a function has exactly 1000 points, the first at the
\* lower bound of the visible x domain and every one inside the domain.
C25_ThousandSamples ==
  pc = "done" =>
    \A j \in DOMAIN paths :
      /\ Len(paths[j].d) = samples
      /\ paths[j].d[1][1] = xDomain[1]
      /\ \A i \in DOMAIN paths[j].d :
           FlLeq(xDomain[1], paths[j].d[i][1]) /\ FlLeq(paths[j].d[i][1], xDomain[2])

\* the length of the assignment prefix f(x) = or y = that e starts with, 0
\* when it starts with none
LeadingPrefix(e) ==
  IF AssignMatch(e, 1, <<"f","(","x",")">>) > 0 THEN AssignMatch(e, 1, <<"f","(","x",")">>)
  ELSE AssignMatch(e, 1, <<"y">>)

\* how many times the character c is in s
CountOf(s, c) == Cardinality({ i \in 1..Len(s) : s[i] = c })

\* C23: the rewrites remove f(x) = or y = only where the expression starts
\* with it: every = after the leading prefix is still there, and for a
\* right-hand side without = the result is the result for the right-hand
\* side alone.
C23_LeadingPrefixOnly ==
  npc = "rewritten" =>
    LET rhs == SubSeq(expression, LeadingPrefix(expression) + 1, Len(expression))
    IN  /\ CountOf(normalizedExpr, "=") = CountOf(rhs, "=")
        /\ ~Contains(rhs, <<"=">>, FALSE) => normalizedExpr = Rewrite(rhs)

(***************************************************************************)
(* splitImplicitMultiplication on runs of letters (App.tsx 766)            *)
(***************************************************************************)

\* the longest run of letters
MaxRun == 5

\* the letters of the runs; p and i make the known name pi
Letters == {"k", "x", "y", "p", "I"}

LetterRuns == UNION { [1..n -> Letters] : n \in 2..MaxRun }

SplitInit ==
  /\ expression \in LetterRuns
  /\ normalizedExpr = expression
  /\ npc = "raw"
  /\ props = NoProps
  /\ LoopIdle
  /\ ViewInit
  /\ AppInit

\* const processedExpr = splitImplicitMultiplication(expr)
SplitRun ==
  /\ npc = "raw"
  /\ normalizedExpr' = splitImplicitMultiplication(expression)
  /\ npc' = "split"
  /\ UNCHANGED <<expression, sampleVars, viewVars, appVars, scanVars>>

SpecSplit == SplitInit /\ [][SplitRun]_vars

\* no known function name occurs in s, in whatever case
NoKnownName(s) == \A f \in 1..Len(functions) : ~Contains(s, functions[f], TRUE)

\* the characters of s with one space between each two
Spaced(s) == [i \in 1..(2 * Len(s) - 1) |-> IF i % 2 = 1 THEN s[(i + 1) \div 2] ELSE " "]

\* C22: for a run of n >= 2 letters without a known function name, the
\* result of splitImplicitMultiplication is the n letters with exactly one
\* space between each two.
C22_RunsSplit ==
  (npc = "split" /\ NoKnownName(expression)) => normalizedExpr = Spaced(expression)

\* kxyIk, which the first pass leaves as k xy Ik, came out as k x y I k
C22_Witness ==
  /\ npc = "split"
  /\ expression = <<"k","x","y","I","k">>
  /\ SplitLetters(expression) = <<"k"," ","x","y"," ","I","k">>
  /\ normalizedExpr = <<"k"," ","x"," ","y"," ","I"," ","k">>

(***************************************************************************)
(* The grapher of App: the function list, the parameter map and the        *)
(* editing id, with the GraphView it renders                               *)
(***************************************************************************)

\* the longest function list
MaxFunctions == 2

\* the ids Math.random().toString(36).substr(2, 9) gives in the runs
Ids == {1, 2}

\* the expressions submitted: k x written without a space, and an
\* expression that does not parse
AppExprs == { <<"k","x">>, <<"(","x","+">> }

\* the values of the sliders
SliderValues == {1, 2}

\* the symbols detectGraphParameters leaves out (App.tsx 792)
Excluded == { <<"x">>, <<"y">>, <<"e">>, <<"p","i">>, <<"P","I">>, <<"p","h","i">>, <<"i">> }

\* a detection that keeps only the parameters of the expression at hand
PrunedParameters(expr, prev) ==
  LET node == Parse(StripPrefixes(splitImplicitMultiplication(expr)))
      variables == IF node.ok
                     THEN { n \in SymbolNames(node.node) : n \notin Excluded /\ n \notin MathFunctions }
                     ELSE {}
  IN  [v \in variables |-> IF v \in DOMAIN prev THEN prev[v] ELSE Parameter(v, 1)]

\* a detection without the list of line 792
DetectAll(expr, prev) ==
  LET node == Parse(StripPrefixes(splitImplicitMultiplication(expr)))
      variables == IF node.ok
                     THEN { n \in SymbolNames(node.node) : n \notin MathFunctions }
                     ELSE {}
  IN  [v \in DOMAIN prev \cup variables |->
         IF v \in DOMAIN prev THEN prev[v] ELSE Parameter(v, 1)]

\* detectGraphParameters (App.tsx 785-814): the parameter map after it
detectGraphParameters(expr, prev) ==
  LET processed == splitImplicitMultiplication(expr)
      node == Parse(StripPrefixes(processed))
      variables == IF node.ok
                     THEN { n \in SymbolNames(node.node) : n \notin Excluded /\ n \notin MathFunctions }
                     ELSE {}
  IN  [v \in DOMAIN prev \cup variables |->
         IF v \in DOMAIN prev THEN prev[v] ELSE Parameter(v, 1)]

\* App.tsx 1269: the visible entries, as expression and color
RECURSIVE VisibleFunctions(_)
VisibleFunctions(fs) ==
  IF fs = <<>> THEN <<>>
  ELSE (IF Head(fs).visible
          THEN <<[expression |-> Head(fs).expression, color |-> Head(fs).color]>>
          ELSE <<>>) \o VisibleFunctions(Tail(fs))

\* fs.filter(func => func.id !== id)
RECURSIVE WithoutId(_, _)
WithoutId(fs, id) ==
  IF fs = <<>> THEN <<>>
  ELSE (IF Head(fs).id # id THEN <<Head(fs)>> ELSE <<>>) \o WithoutId(Tail(fs), id)

\* the render of App after a state update: GraphView gets its props
\* (App.tsx 1268-1271) and its effect runs
Render(fs, ps) ==
  /\ props' = [functions |-> VisibleFunctions(fs), parameters |-> ps]
  /\ RenderEffect([functions |-> VisibleFunctions(fs), parameters |-> ps], dimensions)
  /\ UNCHANGED <<dimensions, lastGesture, loopVars, normVars>>

\* addGraphFunction (App.tsx 764-783) on one of the inputs, with the id
\* Math.random gives
addGraphFunctionOf(inputs) ==
  \E input \in inputs, id \in Ids :
   \E processedExpr \in {splitImplicitMultiplication(input)} :
    /\ Trim(input) # <<>>
    /\ submitted' = <<input>>
    /\ graphParameters' = detectGraphParameters(processedExpr, graphParameters)
    /\ IF graphEditingId # 0
         THEN /\ graphFunctions' = [i \in 1..Len(graphFunctions) |->
                                      IF graphFunctions[i].id = graphEditingId
                                        THEN [graphFunctions[i] EXCEPT !.expression = input]
                                        ELSE graphFunctions[i]]
              /\ graphEditingId' = 0
         ELSE /\ Len(graphFunctions) < MaxFunctions
              /\ graphFunctions' = Append(graphFunctions,
                   [id |-> id, expression |-> input, visible |-> TRUE,
                    color |-> COLORS[(Len(graphFunctions) % Len(COLORS)) + 1]])
              /\ UNCHANGED graphEditingId
    /\ UNCHANGED scanVars
    /\ Render(graphFunctions', graphParameters')

\* the submit of the manual input (App.tsx 1429, 1434)
addGraphFunction == addGraphFunctionOf(AppExprs)

\* the selected results of a scan, as Add All finds them
ScanResults == { << <<"k","x">> >>, << <<"k","x">>, <<"(","x","+">> >> }

\* the list after the updaters of setGraphFunctions that the calls
\* addGraphFunction(res) of one handler queue have run in order (App.tsx
\* 768-780); every call sees the editing id of the render the handler is of
RECURSIVE AddedFunctions(_, _, _, _)
AddedFunctions(fs, results, ids, editing) ==
  IF results = <<>> THEN fs
  ELSE LET res == Head(results)
           next == IF Trim(res) = <<>> THEN fs
                   ELSE IF editing # 0
                     THEN [i \in 1..Len(fs) |->
                             IF fs[i].id = editing THEN [fs[i] EXCEPT !.expression = res]
                                                   ELSE fs[i]]
                     ELSE Append(fs, [id |-> Head(ids), expression |-> res, visible |-> TRUE,
                                      color |-> COLORS[(Len(fs) % Len(COLORS)) + 1]])
       IN  AddedFunctions(next, Tail(results), Tail(ids), editing)

\* the parameter map after the updaters of setGraphParameters of those calls
\* (App.tsx 766-767, 802-812)
RECURSIVE DetectedParameters(_, _)
DetectedParameters(results, prev) ==
  IF results = <<>> THEN prev
  ELSE LET next == CHOOSE ps \in { IF Trim(Head(results)) = <<>> THEN prev
                                   ELSE detectGraphParameters(processedExpr, prev) :
                                     processedExpr \in {splitImplicitMultiplication(Head(results))} } : TRUE
       IN  DetectedParameters(Tail(results), next)

\* the Add All button of the scanned results (App.tsx 1519-1524), with the
\* ids Math.random gives; the selected results are an input of the handler
AddAll ==
  \E results \in ScanResults :
   \E ids \in [1..Len(results) -> Ids] :
    /\ graphEditingId = 0 => Len(graphFunctions) + Len(results) <= MaxFunctions
    /\ \E fs \in {AddedFunctions(graphFunctions, results, ids, graphEditingId)},
          ps \in {DetectedParameters(results, graphParameters)} :
         /\ graphFunctions' = fs
         /\ graphParameters' = ps
         /\ graphEditingId' = IF \E i \in 1..Len(results) : Trim(results[i]) # <<>>
                                THEN 0 ELSE graphEditingId
         /\ submitted' = results
         /\ graphScannedResults' = <<>>
         /\ UNCHANGED <<graphIsScanning, graphLastImageData, graphSelectedIndices, requests, shown>>
         /\ Render(fs, ps)

\* the edit button of an entry (App.tsx 1318)
StartEdit ==
  \E i \in DOMAIN graphFunctions :
    /\ graphEditingId' = graphFunctions[i].id
    /\ submitted' = <<>>
    /\ UNCHANGED <<graphFunctions, graphParameters>>
    /\ UNCHANGED scanVars
    /\ Render(graphFunctions, graphParameters)

\* a visibility button that puts the entry it flips at the end of the list
ToggleReorder ==
  \E i \in DOMAIN graphFunctions :
    /\ graphFunctions' = Append(WithoutId(graphFunctions, graphFunctions[i].id),
                                [graphFunctions[i] EXCEPT !.visible = ~@])
    /\ submitted' = <<>>
    /\ UNCHANGED <<graphParameters, graphEditingId>>
    /\ UNCHANGED scanVars
    /\ Render(graphFunctions', graphParameters)

\* the visibility button of an entry (App.tsx 1299)
ToggleVisible ==
  \E i \in DOMAIN graphFunctions :
    /\ graphFunctions' = [j \in 1..Len(graphFunctions) |->
                            IF graphFunctions[j].id = graphFunctions[i].id
                              THEN [graphFunctions[j] EXCEPT !.visible = ~@]
                              ELSE graphFunctions[j]]
    /\ submitted' = <<>>
    /\ UNCHANGED <<graphParameters, graphEditingId>>
    /\ UNCHANGED scanVars
    /\ Render(graphFunctions', graphParameters)

\* the delete button of an entry (App.tsx 1325)
DeleteFunction ==
  \E i \in DOMAIN graphFunctions :
    /\ graphFunctions' = WithoutId(graphFunctions, graphFunctions[i].id)
    /\ submitted' = <<>>
    /\ UNCHANGED <<graphParameters, graphEditingId>>
    /\ UNCHANGED scanVars
    /\ Render(graphFunctions', graphParameters)

\* a color of the picker of an entry (App.tsx 1346-1349)
Recolour ==
  \E i \in DOMAIN graphFunctions, c \in {COLORS[3]} :
    /\ graphFunctions[i].color # c
    /\ graphFunctions' = [j \in 1..Len(graphFunctions) |->
                            IF graphFunctions[j].id = graphFunctions[i].id
                              THEN [graphFunctions[j] EXCEPT !.color = c]
                              ELSE graphFunctions[j]]
    /\ submitted' = <<>>
    /\ UNCHANGED <<graphParameters, graphEditingId>>
    /\ UNCHANGED scanVars
    /\ Render(graphFunctions', graphParameters)

\* the parameters whose sliders an entry shows (App.tsx 1282-1292): the
\* symbols of its expression that are keys of the parameter map
usedParams(f, ps) ==
  LET processed == splitImplicitMultiplication(f.expression)
      node == Parse(StripPrefixes(processed))
  IN  IF node.ok THEN SymbolNames(node.node) \cap DOMAIN ps ELSE {}

\* the delete button of a parameter (App.tsx 1368-1372), which an entry that
\* uses the parameter shows
DeleteParameter ==
  \E i \in DOMAIN graphFunctions : \E n \in usedParams(graphFunctions[i], graphParameters) :
    /\ graphParameters' = [m \in DOMAIN graphParameters \ {n} |-> graphParameters[m]]
    /\ submitted' = <<>>
    /\ UNCHANGED <<graphFunctions, graphEditingId>>
    /\ UNCHANGED scanVars
    /\ Render(graphFunctions, graphParameters')

\* the slider of a parameter (App.tsx 1382)
SetParameterValue ==
  \E i \in DOMAIN graphFunctions, v \in SliderValues :
   \E n \in usedParams(graphFunctions[i], graphParameters) :
    /\ graphParameters[n].value # v
    /\ graphParameters' = [graphParameters EXCEPT ![n].value = v]
    /\ submitted' = <<>>
    /\ UNCHANGED <<graphFunctions, graphEditingId>>
    /\ UNCHANGED scanVars
    /\ Render(graphFunctions, graphParameters')

\* App mounted, GraphView with it, before the first report of the
\* ResizeObserver
Init ==
  /\ AppInit
  /\ props = [functions |-> VisibleFunctions(<<>>), parameters |-> <<>>]
  /\ ViewInit
  /\ NormIdle
  /\ LoopIdle

Next ==
  \/ AddAll
  \/ addGraphFunction
  \/ StartEdit
  \/ ToggleVisible
  \/ DeleteFunction
  \/ Recolour
  \/ DeleteParameter
  \/ SetParameterValue
  \/ Resize(LaidOut)

Spec == Init /\ [][Next]_vars

(***************************************************************************)
(* The scanner of App: handleGraphFileUpload and regenerateGraphFunctions  *)
(* (App.tsx 884-911) with extractFunctionsFromImage.  A request is started *)
(* by an upload or by Regenerate; it is "reading" while the FileReader     *)
(* works, "calling" while the promise of extractFunctionsFromImage is      *)
(* pending, then "resolved" or "rejected".                                 *)
(***************************************************************************)

\* the most requests of a run
MaxScans == 3

\* the images the user uploads
Images == {1, 2}

\* what extractFunctionsFromImage resolves with: the strings of the reply,
\* or [] for a reply that is no JSON
Replies == { <<>>, << <<"x">> >>, << <<"k","x">>, <<"x">> >> }

InFlight == { n \in DOMAIN requests : requests[n].phase \in {"reading", "calling"} }

\* handleGraphFileUpload up to reader.readAsDataURL(file) (App.tsx 884-887,
\* 896): the upload area takes a file at any time
handleGraphFileUpload ==
  \E file \in Images :
    /\ Len(requests) < MaxScans
    /\ graphIsScanning' = TRUE
    /\ requests' = Append(requests, [image |-> file, phase |-> "reading"])
    /\ UNCHANGED <<graphScannedResults, graphLastImageData, graphSelectedIndices, shown>>
    /\ UNCHANGED appVars
    /\ Render(graphFunctions, graphParameters)

\* reader.onloadend up to the await (App.tsx 889-892)
ReaderLoadEnd ==
  \E n \in DOMAIN requests :
    /\ requests[n].phase = "reading"
    /\ graphLastImageData' = requests[n].image
    /\ requests' = [requests EXCEPT ![n].phase = "calling"]
    /\ UNCHANGED <<graphIsScanning, graphScannedResults, graphSelectedIndices, shown>>
    /\ UNCHANGED appVars
    /\ Render(graphFunctions, graphParameters)

\* regenerateGraphFunctions up to the await (App.tsx 900-907); its button is
\* there when an image is held and no scan is shown as running (App.tsx 1504)
regenerateGraphFunctions ==
  /\ graphLastImageData # 0
  /\ ~graphIsScanning
  /\ Len(requests) < MaxScans
  /\ graphIsScanning' = TRUE
  /\ requests' = Append(requests, [image |-> graphLastImageData, phase |-> "calling"])
  /\ UNCHANGED <<graphScannedResults, graphLastImageData, graphSelectedIndices, shown>>
  /\ UNCHANGED appVars
  /\ Render(graphFunctions, graphParameters)

\* the promise of extractFunctionsFromImage resolves: the rest of the
\* handler runs (App.tsx 893-895, 908-910)
ScanResolved ==
  \E n \in DOMAIN requests, results \in Replies :
    /\ requests[n].phase = "calling"
    /\ graphScannedResults' = results
    /\ graphSelectedIndices' = 1..Len(results)
    /\ graphIsScanning' = FALSE
    /\ requests' = [requests EXCEPT ![n].phase = "resolved"]
    /\ shown' = n
    /\ UNCHANGED graphLastImageData
    /\ UNCHANGED appVars
    /\ Render(graphFunctions, graphParameters)

\* the promise rejects (ai.models.generateContent failed): the await throws
\* and nothing of the handler after it runs
ScanRejected ==
  \E n \in DOMAIN requests :
    /\ requests[n].phase = "calling"
    /\ requests' = [requests EXCEPT ![n].phase = "rejected"]
    /\ UNCHANGED <<graphIsScanning, graphScannedResults, graphLastImageData,
                   graphSelectedIndices, shown>>
    /\ UNCHANGED appVars
    /\ UNCHANGED <<props, viewVars, loopVars, normVars>>

ScanNext ==
  \/ handleGraphFileUpload
  \/ ReaderLoadEnd
  \/ regenerateGraphFunctions
  \/ ScanResolved
  \/ ScanRejected

SpecScan == Init /\ [][ScanNext]_vars

\* C29: the scanning indicator is not on when no request is in flight: once
\* every request has finished, resolved or rejected, graphIsScanning is false.
C29_ScanningEnds == InFlight = {} => ~graphIsScanning

\* C30: while a request is in flight graphIsScanning is true; and once
\* requests that ran at the same time have all resolved, the results shown
\* are those of the request started last, for the image graphLastImageData
\* holds.
C30_LatestScanWins ==
  /\ InFlight # {} => graphIsScanning
  /\ (InFlight = {} /\ requests # <<>>
        /\ \A n \in DOMAIN requests : requests[n].phase = "resolved") =>
       /\ shown = Len(requests)
       /\ requests[shown].image = graphLastImageData

\* the expressions of the runs on the parameter map: the product of k with
\* x, y, e and i written without spaces, and a sum with a
ParamExprs == { <<"k","x","y","e","i">>, <<"a","+","x">> }

ParamNext ==
  \/ addGraphFunctionOf(ParamExprs)
  \/ StartEdit
  \/ DeleteFunction
  \/ DeleteParameter
  \/ SetParameterValue

SpecParams == Init /\ [][ParamNext]_vars

\* C28: no key of the parameter map is one of x, y, e, pi, PI, phi, i; every
\* parameter has its key as name, min -10, max 10 and step 0.1, and value 1
\* when it is created; and the scope the sampler builds with the map has
\* its own x, pi and e.
C28_ParameterMap ==
  [][ /\ \A n \in DOMAIN graphParameters' :
           /\ n \notin { <<"x">>, <<"y">>, <<"e">>, <<"p","i">>, <<"P","I">>, <<"p","h","i">>, <<"i">> }
           /\ graphParameters'[n].name = n
           /\ graphParameters'[n].min = 0 - 10
           /\ graphParameters'[n].max = 10
           /\ graphParameters'[n].step = <<1, 10>>
      /\ \A n \in DOMAIN graphParameters' \ DOMAIN graphParameters :
           graphParameters'[n].value = 1
      /\ \A xv \in {0, 1} :
           LET sc == BuildScope(xv, graphParameters')
           IN  sc[<<"x">>] = Num(xv) /\ sc[<<"p","i">>] = Real /\ sc[<<"e">>] = Real ]_vars

\* the entry k x y e i is in the list, k and a are the keys of the map, and
\* the slider of k has been moved
C28_Witness ==
  /\ \E i \in DOMAIN graphFunctions : graphFunctions[i].expression = <<"k","x","y","e","i">>
  /\ DOMAIN graphParameters = { <<"k">>, <<"a">> }
  /\ graphParameters[<<"k">>].value = 2
  /\ graphParameters[<<"a">>].value = 1

\* C12: an entry that is added gets a color that no entry before it in the
\* list has at that moment (the list is shorter than the palette).
C12_FreshColor ==
  [][ Len(graphFunctions') > Len(graphFunctions) =>
        \A j \in (Len(graphFunctions) + 1)..Len(graphFunctions') :
          \A i \in 1..(j - 1) : graphFunctions'[i].color # graphFunctions'[j].color ]_vars

\* C14: a step that removes a key from the parameter map removes exactly one
\* key, keeps the other parameters as they are and leaves the function list
\* and the editing id alone: it is the parameter's delete button, and no
\* add, edit, delete, hide or recolour of a function and no redraw removes
\* a key.
C14_ExplicitDeleteOnly ==
  [][ (\E n \in DOMAIN graphParameters : n \notin DOMAIN graphParameters') =>
        /\ graphFunctions' = graphFunctions
        /\ graphEditingId' = graphEditingId
        /\ submitted' = <<>>
        /\ \E n \in DOMAIN graphParameters :
             graphParameters' = [m \in DOMAIN graphParameters \ {n} |-> graphParameters[m]] ]_vars

\* the parameter k is in the map, no entry is left to reference it, and the
\* graph has been redrawn with it
C14_Witness ==
  /\ graphFunctions = <<>>
  /\ <<"k">> \in DOMAIN graphParameters
  /\ svg # <<>>
  /\ svg[1].functions = <<>>
  /\ <<"k">> \in DOMAIN svg[1].parameters

\* C15: a step that keeps the length of the list keeps every entry's id and
\* place, and changes either the expression of the entries whose id is the
\* editing id (a submitted edit), or visible alone, or color alone.
C15_IdsImmutable ==
  [][ Len(graphFunctions') = Len(graphFunctions) =>
        /\ \A i \in DOMAIN graphFunctions : graphFunctions'[i].id = graphFunctions[i].id
        /\ \/ /\ graphEditingId # 0
              /\ graphEditingId' = 0
              /\ \A i \in DOMAIN graphFunctions :
                   graphFunctions'[i] =
                     IF graphFunctions[i].id = graphEditingId
                       THEN [graphFunctions[i] EXCEPT !.expression = submitted'[Len(submitted')]]
                       ELSE graphFunctions[i]
           \/ \A i \in DOMAIN graphFunctions :
                graphFunctions'[i] = [graphFunctions[i] EXCEPT !.visible = graphFunctions'[i].visible]
           \/ \A i \in DOMAIN graphFunctions :
                graphFunctions'[i] = [graphFunctions[i] EXCEPT !.color = graphFunctions'[i].color] ]_vars

\* the last handler submitted an edit of the only entry, which had been
\* hidden and recoloured before: it has the new expression, its id, and is
\* still hidden and in the color chosen
C15_Witness ==
  /\ submitted = << <<"(","x","+">> >>
  /\ graphEditingId = 0
  /\ Len(graphFunctions) = 1
  /\ graphFunctions[1].expression = <<"(","x","+">>
  /\ ~graphFunctions[1].visible
  /\ graphFunctions[1].color = COLORS[3]
  /\ graphFunctions[1].id = 2

\* the step is a handler that called addGraphFunction
Submission ==
  /\ submitted' # <<>>
  /\ <<graphFunctions, graphEditingId>>' # <<graphFunctions, graphEditingId>>

\* the y the sampler records for the expression e at xv with the parameters
\* ps (lines 196-226)
SampleOf(e, xv, ps) ==
  CHOOSE r \in
    { LET sc   == BuildScope(xv, ps)
          v    == evaluate(ne, sc)
          name == IF IsError(v) THEN MatchUndefinedSymbol(v) ELSE <<>>
          v2   == evaluate(ne, [n \in DOMAIN sc \cup {name} |-> IF n = name THEN Num(1) ELSE sc[n]])
      IN  IF ~IsError(v) THEN PointOf(RealPart(v))
          ELSE IF name = <<>> \/ IsError(v2) THEN NaN
          ELSE PointOf(v2) : ne \in {Normalize(e)} } : TRUE

\* an expression math.parse rejects
Unparseable == <<"(","x","+">>

\* C17: the submission of an unparseable expression appends an entry with it
\* (outside edit mode) or gives it to the entry under edit, leaves the
\* parameter map as it is, and no sample of it in the drawing is defined.
C17_UnparseableKept ==
  [][ (Submission /\ submitted' = <<Unparseable>>) =>
        /\ IF graphEditingId = 0
             THEN /\ Len(graphFunctions') = Len(graphFunctions) + 1
                  /\ graphFunctions'[Len(graphFunctions')].expression = Unparseable
             ELSE \E i \in DOMAIN graphFunctions :
                    /\ graphFunctions[i].id = graphEditingId
                    /\ graphFunctions'[i].expression = Unparseable
        /\ graphParameters' = graphParameters
        /\ svg' # <<>> =>
             \A i \in DOMAIN svg'[1].functions :
               svg'[1].functions[i].expression = Unparseable =>
                 \A xv \in (0 - SampleSpan)..SampleSpan :
                   ~defined(<<xv, SampleOf(Unparseable, xv, svg'[1].parameters)>>) ]_vars

\* C20: a submission of one expression outside edit mode appends exactly one
\* visible entry with that expression at the end of the list; in edit mode
\* it keeps the length of the list and the entry whose id is the editing id
\* has the expression afterwards.
C20_SubmissionStored ==
  [][ (Submission /\ Len(submitted') = 1) =>
        IF graphEditingId = 0
          THEN /\ Len(graphFunctions') = Len(graphFunctions) + 1
               /\ SubSeq(graphFunctions', 1, Len(graphFunctions)) = graphFunctions
               /\ graphFunctions'[Len(graphFunctions')].expression = submitted'[1]
               /\ graphFunctions'[Len(graphFunctions')].visible
          ELSE /\ Len(graphFunctions') = Len(graphFunctions)
               /\ \E i \in DOMAIN graphFunctions' :
                    /\ graphFunctions'[i].id = graphEditingId
                    /\ graphFunctions'[i].expression = submitted'[1] ]_vars

\* C21: a handler that gives the selected results of a scan to
\* addGraphFunction, one after the other, appends one entry per result in the
\* order of the results, whatever the editing id was, and keeps the
\* expression of every entry the list had.
C21_AddAllAppends ==
  [][ (Submission /\ submitted' \in ScanResults) =>
        /\ Len(graphFunctions') = Len(graphFunctions) + Len(submitted')
        /\ \A i \in DOMAIN graphFunctions :
             graphFunctions'[i].expression = graphFunctions[i].expression
        /\ \A j \in 1..Len(submitted') :
             graphFunctions'[Len(graphFunctions) + j].expression = submitted'[j] ]_vars

\* C13: no two entries of the function list have the same id.
C13_UniqueIds ==
  \A i, j \in DOMAIN graphFunctions :
    i # j => graphFunctions[i].id # graphFunctions[j].id

\* the symbols of the expression the sampler evaluates for expr that are
\* neither left out by detection nor functions of the evaluator
FreeSymbols(expr) ==
  LET node == Parse(Normalize(expr))
  IN  IF node.ok
        THEN { n \in SymbolNames(node.node) : n \notin Excluded /\ n \notin MathFunctions }
        ELSE {}

\* C27: the parameters whose sliders an entry shows are exactly the symbols
\* of its normalized expression that are neither x, y, e, pi, PI, phi, i nor
\* functions of the evaluator.
C27_SlidersAreSymbols ==
  \A i \in DOMAIN graphFunctions :
    usedParams(graphFunctions[i], graphParameters) = FreeSymbols(graphFunctions[i].expression)

\* C2: every free symbol of every function that was sampled for the drawing
\* is a key of the parameter map it was sampled with.
C2_ParametersBound ==
  svg # <<>> =>
    \A i \in DOMAIN svg[1].functions :
      FreeSymbols(svg[1].functions[i].expression) \subseteq DOMAIN svg[1].parameters

====
